---- MODULE Spec2Model ----
(***************************************************************************)
(* A model of the MJ-RAG pipeline (src/src/mj_rag/algorithm.py).           *)
(*                                                                         *)
(* Text is a sequence of tokens: a token is one character (" ", "\n") or   *)
(* an atomic word.  The module holds several state machines over one set   *)
(* of variables; each specification moves its own groups of variables and  *)
(* leaves the other groups at their idle value:                            *)
(*   SpecHash    get_doc_hash on texts and on texts with inserted          *)
(*               spaces / blank lines                                      *)
(*   SpecSplit   split_content_with_llm: tree cache, retry loop            *)
(*   SpecAnswer  get_answer and the two section entry points               *)
(*   SpecTree    enrich_sections, _save_sections_in_sql_db,                *)
(*               _linearize_sections                                       *)
(*   SpecChunk   the sentence-window chunker of split_content_by_sentences *)
(*   SpecEmbed   get_embeddings_for_sentences: embeddings cache, batching  *)
(*   SpecIngest  save_text_in_databases: both stages, caches and stores    *)
(*   SpecRace    two concurrent split_content_with_llm calls on one        *)
(*               document, racing on the tree cache file                   *)
(*   SpecEnrich  enrich_sections called on a list the caller keeps         *)
(*   SpecWindows split_content_by_sentences called repeatedly over the     *)
(*               sentences cache                                           *)
(*   SpecPdf     MjPdfReader: recurrent blocks and the cleaned markdown    *)
(***************************************************************************)
EXTENDS Integers, Sequences, FiniteSets, TLC

VARIABLES
    hT,         \* SpecHash: the original text T
    hT2,        \* SpecHash: the text T' derived from T by insertions
    hOps        \* SpecHash: number of insertions made so far

hashVars == <<hT, hT2, hOps>>

VARIABLES
    jsonCache,      \* content_to_json_cache: hash -> text of <hash>.json
    spPc,           \* split_content_with_llm: "idle", "try" (in the retry loop), "done"
    spContent,      \* its content argument
    spHash,         \* the hash it works under
    spErrors,       \* its errors list
    spSent,         \* the message list of every completion call it made, in order
    spResponses,    \* the response the completion service gave to each call
    spOut,          \* how the call ended: "none", "ok" or the exception raised
    spRes,          \* the tree it returned
    spBefore,       \* spReturned as it was when the current call started
    spReturned,     \* hash -> content and returned tree of the last successful call
    spCalls,        \* number of split_content_with_llm calls started
    spCacheBefore   \* jsonCache as it was when the current call started

splitVars == <<jsonCache, spPc, spContent, spHash, spErrors, spSent, spResponses,
               spOut, spRes, spBefore, spReturned, spCalls, spCacheBefore>>

VARIABLES
    aPc,            \* query: "idle", "classify", "direct", "verify", "headers", "query", "done"
    aEntry,         \* the public method called: "get_answer", "from_question", "from_header"
    aArgs,          \* its arguments
    aNos,           \* get_answer: number_of_sentences after classification
    aKind,          \* get_answer: kind
    aMode,          \* the mode handed to the section entry point
    aFirst,         \* get_answer: first_answer
    aMatchs,        \* the matches the header index returned
    aOut,           \* how the call ended: "none", "ok" or the exception raised
    aResult,        \* the value returned
    aLlm,           \* completion-service calls made so far
    aDispatchLlm,   \* completion-service calls made by _process_section_matchs
    aSentQ,         \* sentence-index queries made so far
    aHeadQ,         \* header-index queries made so far
    aVerif,         \* self-verification calls made so far, with their verdicts
    aClassif        \* the shape of the response to each classification call made so far

ansVars == <<aPc, aEntry, aArgs, aNos, aKind, aMode, aFirst, aMatchs, aOut, aResult,
             aLlm, aDispatchLlm, aSentQ, aHeadQ, aVerif, aClassif>>

VARIABLES
    tPc,            \* title ingestion: "raw", "enriched", "saved", "rows", "stripped",
                    \* "inserted", then "retrieved" once a query has been answered
    tHier,          \* self.add_hierarchized_titles
    tRaw,           \* the tree as parsed from the completion
    tTree,          \* the tree: enriched, then with sql_doc_id on every node
    tSql,           \* the metadata store: the (header, content) put under each id
    tRows,          \* the linearized rows
    tIndex,         \* the title index: the row lists handed to insert_section_headers
    tMatchs,        \* the matches a header query got back from the title index
    tEntries        \* their context entries

treeVars == <<tPc, tHier, tRaw, tTree, tSql, tRows, tIndex, tMatchs, tEntries>>

VARIABLES
    cPc,            \* chunker: "idle", "text", "lines", "windows"
    cText,          \* markdown_content
    cCount,         \* count
    cLines,         \* lines: the stripped non-empty fragments
    cSpans,         \* for each window, the first and last fragment it takes
    cWindows        \* sentences_set

chunkVars == <<cPc, cText, cCount, cLines, cSpans, cWindows>>

VARIABLES
    embCache,       \* content_to_embeddings_cache: hash -> saved vectors
    ePc,            \* get_embeddings_for_sentences: "idle", "loop", "done"
    eHash,          \* its doc_hash argument
    eSentences,     \* its sentences_set argument
    eI,             \* loop index i: windows consumed so far
    eTmp,           \* tmp_sentences
    eTmpTokens,     \* tmp_tokens_count
    eVectors,       \* vectors
    eRequests,      \* the batch of every encode_documents call, in order
    eOut            \* how the call ended: "none", "ok" or the exception raised

embedVars == <<embCache, ePc, eHash, eSentences, eI, eTmp, eTmpTokens, eVectors,
               eRequests, eOut>>

VARIABLES
    iPc,            \* save_text_in_databases: "idle", "embed", "split", "done"
    iHier,          \* self.add_hierarchized_titles
    iContent,       \* markdown_content
    iDocHash,       \* the doc_hash argument
    iSentCache,     \* content_to_sentences_cache: hash -> saved windows
    iEmbCache,      \* content_to_embeddings_cache: hash -> saved vectors
    iVdbSent,       \* vector store: the insert_sentences_set calls, in order
    iSql,           \* metadata store: the (header, content) put under each id
    iVdbHead,       \* vector store: the insert_section_headers calls, in order
    iEmbCalls,      \* encode_documents calls made so far
    iHash,          \* the hash split_content_by_sentences returned
    iSentOut,       \* how split_content_by_sentences ended in the current call
    iWindows,       \* the windows it returned
    iSplitBase,     \* spCalls when the current call started
    iOut,           \* how the call ended: "none", "ok" or the exception raised
    iResult,        \* the value returned
    iBefore,        \* caches, stores and counters as the current call found them
    iIngested,      \* contents of the calls that returned the document hash
    iCalls          \* number of save_text_in_databases calls started

ingVars == <<iPc, iHier, iContent, iDocHash, iSentCache, iEmbCache, iVdbSent, iSql,
             iVdbHead, iEmbCalls, iHash, iSentOut, iWindows, iSplitBase, iOut,
             iResult, iBefore, iIngested, iCalls>>

VARIABLES
    rFile,          \* the tree cache file of the document: None while absent,
                    \* else the tokens it holds
    rPc,            \* per ingestion: "lookup", "complete", "open", "write", "done"
    rTree,          \* per ingestion: the tree it got from the completion service
    rOut,           \* per ingestion: "none", "ok" or the exception raised
    rRes,           \* per ingestion: the tree it returned
    rLlm,           \* per ingestion: completion calls made
    rWrites         \* the ingestions that wrote the file, in the order of their writes

raceVars == <<rFile, rPc, rTree, rOut, rRes, rLlm, rWrites>>

VARIABLES
    nSections,      \* the list the caller passes to enrich_sections, as it is now
    nBefore,        \* the same list as it was before the first call
    nResults        \* what each enrich_sections call returned, as it was on return

enrichVars == <<nSections, nBefore, nResults>>

VARIABLES
    wCache,         \* content_to_sentence_cache: hash -> saved window list
    wCacheBefore,   \* wCache as it was when the last call started
    wText,          \* split_content_by_sentences: markdown_content of the last call
    wCount,         \* its count
    wOut,           \* how it ended: "none", "ok" or the exception raised
    wRes,           \* the window list it returned
    wCalls          \* calls made so far

windowVars == <<wCache, wCacheBefore, wText, wCount, wOut, wRes, wCalls>>

VARIABLES
    pPc,            \* MjPdfReader: "open", "scanned", "filtered", "markdown"
    pDoc,           \* self.doc: the pages, each the blocks extractBLOCKS gives
    pPage,          \* pages get_list_of_recurrent_texts_as_dict has gone through
    pRecurrents,    \* its dictionary recurrents: signature -> count and texts
    pResult,        \* the dictionary it returns
    pMd             \* get_markdown: md_text

pdfVars == <<pPc, pDoc, pPage, pRecurrents, pResult, pMd>>

vars == <<hashVars, splitVars, ansVars, treeVars, chunkVars, embedVars, ingVars, raceVars,
          enrichVars, windowVars, pdfVars>>

\* the groups a state machine leaves alone
notHash == <<splitVars, ansVars, treeVars, chunkVars, embedVars, ingVars, raceVars,
            enrichVars, windowVars, pdfVars>>
notSplit == <<hashVars, ansVars, treeVars, chunkVars, embedVars, ingVars, raceVars,
            enrichVars, windowVars, pdfVars>>
notAns == <<hashVars, splitVars, treeVars, chunkVars, embedVars, ingVars, raceVars,
            enrichVars, windowVars, pdfVars>>
notTree == <<hashVars, splitVars, ansVars, chunkVars, embedVars, ingVars, raceVars,
            enrichVars, windowVars, pdfVars>>
notChunk == <<hashVars, splitVars, ansVars, treeVars, embedVars, ingVars, raceVars,
            enrichVars, windowVars, pdfVars>>
notEmbed == <<hashVars, splitVars, ansVars, treeVars, chunkVars, ingVars, raceVars,
            enrichVars, windowVars, pdfVars>>
notIngest == <<hashVars, ansVars, treeVars, chunkVars, embedVars, raceVars, enrichVars,
               windowVars, pdfVars>>
notRace == <<hashVars, splitVars, ansVars, treeVars, chunkVars, embedVars, ingVars,
            enrichVars, windowVars, pdfVars>>
notEnrich == <<hashVars, splitVars, ansVars, treeVars, chunkVars, embedVars, ingVars,
               raceVars, windowVars, pdfVars>>
notWindows == <<hashVars, splitVars, ansVars, treeVars, chunkVars, embedVars, ingVars,
                raceVars, enrichVars, pdfVars>>
notPdf == <<hashVars, splitVars, ansVars, treeVars, chunkVars, embedVars, ingVars,
            raceVars, enrichVars, windowVars>>

----------------------------------------------------------------------------
(* Bounds of the model *)

MaxLen == 4         \* longest text T of SpecHash
MaxInserts == 2     \* insertions applied to T in SpecHash
MaxCalls == 2       \* split_content_with_llm calls in one behaviour of SpecSplit
MaxMatches == 3     \* matches the header index returns to one query
MaxTopK == 2        \* largest top_k argument
MaxNodes == 4       \* nodes of the section tree in SpecTree
MaxPieces == 5      \* pieces the text of SpecChunk is made of
MaxWindows == 3     \* windows handed to get_embeddings_for_sentences in SpecEmbed
MaxIngests == 2     \* save_text_in_databases calls in one behaviour of SpecIngest
MaxEnrichCalls == 2 \* enrich_sections calls on one list in SpecEnrich
MaxWindowCalls == 3 \* split_content_by_sentences calls in one behaviour of SpecWindows
MaxPages == 4       \* pages of a document in SpecPdf

----------------------------------------------------------------------------
(* Idle values: what a group of variables holds while another state machine
   runs, and before its own first step *)

None == "None"

HashIdle == hT = <<>> /\ hT2 = <<>> /\ hOps = 0

EmptyMap == [h \in {} |-> <<>>]

SplitIdle ==
    /\ jsonCache = EmptyMap
    /\ spPc = "idle"
    /\ spContent = <<>>
    /\ spHash = None
    /\ spErrors = <<>>
    /\ spSent = <<>>
    /\ spResponses = <<>>
    /\ spOut = "none"
    /\ spRes = <<>>
    /\ spBefore = EmptyMap
    /\ spReturned = EmptyMap
    /\ spCalls = 0
    /\ spCacheBefore = EmptyMap

NoArgs == [top_k |-> 0, return_raw |-> FALSE, mode |-> None, nos |-> None,
           use_alternates |-> FALSE, known_titles |-> FALSE]

AnsIdle ==
    /\ aPc = "idle"
    /\ aEntry = None
    /\ aArgs = NoArgs
    /\ aNos = None
    /\ aKind = None
    /\ aMode = None
    /\ aFirst = <<>>
    /\ aMatchs = <<>>
    /\ aOut = "none"
    /\ aResult = <<>>
    /\ aLlm = 0
    /\ aDispatchLlm = 0
    /\ aSentQ = 0
    /\ aHeadQ = 0
    /\ aVerif = <<>>
    /\ aClassif = <<>>

TreeIdle ==
    /\ tPc = "idle"
    /\ tHier = FALSE
    /\ tRaw = <<>>
    /\ tTree = <<>>
    /\ tSql = <<>>
    /\ tRows = <<>>
    /\ tIndex = <<>>
    /\ tMatchs = <<>>
    /\ tEntries = <<>>

ChunkIdle ==
    /\ cPc = "idle"
    /\ cText = <<>>
    /\ cCount = 0
    /\ cLines = <<>>
    /\ cSpans = <<>>
    /\ cWindows = <<>>

EmbedIdle ==
    /\ embCache = EmptyMap
    /\ ePc = "idle"
    /\ eHash = None
    /\ eSentences = <<>>
    /\ eI = 0
    /\ eTmp = <<>>
    /\ eTmpTokens = 0
    /\ eVectors = <<>>
    /\ eRequests = <<>>
    /\ eOut = "none"

\* caches, stores and call counters of an ingestion, all empty
EmptySnapshot ==
    [sentCache |-> EmptyMap, embCache |-> EmptyMap, jsonCache |-> EmptyMap,
     vdbSent |-> <<>>, sql |-> <<>>, vdbHead |-> <<>>, embCalls |-> 0, ingested |-> {}]

IngFresh(hier) ==
    /\ iPc = "idle"
    /\ iHier = hier
    /\ iContent = <<>>
    /\ iDocHash = None
    /\ iSentCache = EmptyMap
    /\ iEmbCache = EmptyMap
    /\ iVdbSent = <<>>
    /\ iSql = <<>>
    /\ iVdbHead = <<>>
    /\ iEmbCalls = 0
    /\ iHash = None
    /\ iSentOut = "none"
    /\ iWindows = <<>>
    /\ iSplitBase = 0
    /\ iOut = "none"
    /\ iResult = None
    /\ iBefore = EmptySnapshot
    /\ iIngested = {}
    /\ iCalls = 0

IngIdle == IngFresh(FALSE)

\* the two concurrent ingestions
Procs == {1, 2}

RaceIdle ==
    /\ rFile = None
    /\ rPc = [p \in Procs |-> "idle"]
    /\ rTree = [p \in Procs |-> <<>>]
    /\ rOut = [p \in Procs |-> "none"]
    /\ rRes = [p \in Procs |-> <<>>]
    /\ rLlm = [p \in Procs |-> 0]
    /\ rWrites = <<>>

EnrichIdle ==
    /\ nSections = <<>>
    /\ nBefore = <<>>
    /\ nResults = <<>>

WindowsIdle ==
    /\ wCache = EmptyMap
    /\ wCacheBefore = EmptyMap
    /\ wText = <<>>
    /\ wCount = 0
    /\ wOut = "none"
    /\ wRes = <<>>
    /\ wCalls = 0

PdfIdle ==
    /\ pPc = "open"
    /\ pDoc = <<>>
    /\ pPage = 0
    /\ pRecurrents = EmptyMap
    /\ pResult = EmptyMap
    /\ pMd = <<>>

\* every group but the one named at its idle value
IdleButHash ==
    SplitIdle /\ AnsIdle /\ TreeIdle /\ ChunkIdle /\ EmbedIdle /\ IngIdle /\ RaceIdle /\ EnrichIdle
    /\ WindowsIdle /\ PdfIdle
IdleButSplit ==
    HashIdle /\ AnsIdle /\ TreeIdle /\ ChunkIdle /\ EmbedIdle /\ IngIdle /\ RaceIdle /\ EnrichIdle
    /\ WindowsIdle /\ PdfIdle
IdleButAns ==
    HashIdle /\ SplitIdle /\ TreeIdle /\ ChunkIdle /\ EmbedIdle /\ IngIdle /\ RaceIdle /\ EnrichIdle
    /\ WindowsIdle /\ PdfIdle
IdleButTree ==
    HashIdle /\ SplitIdle /\ AnsIdle /\ ChunkIdle /\ EmbedIdle /\ IngIdle /\ RaceIdle /\ EnrichIdle
    /\ WindowsIdle /\ PdfIdle
IdleButChunk ==
    HashIdle /\ SplitIdle /\ AnsIdle /\ TreeIdle /\ EmbedIdle /\ IngIdle /\ RaceIdle /\ EnrichIdle
    /\ WindowsIdle /\ PdfIdle
IdleButEmbed ==
    HashIdle /\ SplitIdle /\ AnsIdle /\ TreeIdle /\ ChunkIdle /\ IngIdle /\ RaceIdle /\ EnrichIdle
    /\ WindowsIdle /\ PdfIdle
IdleButIngest ==
    HashIdle /\ AnsIdle /\ TreeIdle /\ ChunkIdle /\ EmbedIdle /\ RaceIdle /\ EnrichIdle
    /\ WindowsIdle /\ PdfIdle
IdleButRace ==
    HashIdle /\ SplitIdle /\ AnsIdle /\ TreeIdle /\ ChunkIdle /\ EmbedIdle /\ IngIdle /\ EnrichIdle
    /\ WindowsIdle /\ PdfIdle
IdleButEnrich ==
    HashIdle /\ SplitIdle /\ AnsIdle /\ TreeIdle /\ ChunkIdle /\ EmbedIdle /\ IngIdle /\ RaceIdle
    /\ WindowsIdle /\ PdfIdle
IdleButWindows ==
    HashIdle /\ SplitIdle /\ AnsIdle /\ TreeIdle /\ ChunkIdle /\ EmbedIdle /\ IngIdle /\ RaceIdle
    /\ EnrichIdle /\ PdfIdle
IdleButPdf ==
    HashIdle /\ SplitIdle /\ AnsIdle /\ TreeIdle /\ ChunkIdle /\ EmbedIdle /\ IngIdle /\ RaceIdle
    /\ EnrichIdle /\ WindowsIdle

----------------------------------------------------------------------------
(* Text helpers *)

RECURSIVE Flatten(_)
Flatten(ss) == IF ss = <<>> THEN <<>> ELSE Head(ss) \o Flatten(Tail(ss))

InsertAt(s, p, c) == SubSeq(s, 1, p) \o <<c>> \o SubSeq(s, p + 1, Len(s))

\* sep.join(parts)
RECURSIVE Join(_, _)
Join(parts, sep) ==
    IF parts = <<>> THEN <<>>
    ELSE IF Len(parts) = 1 THEN parts[1]
    ELSE parts[1] \o sep \o Join(Tail(parts), sep)

IsPrefix(p, s) == Len(p) <= Len(s) /\ SubSeq(s, 1, Len(p)) = p

\* s.replace(old, ''): every non-overlapping occurrence of old, left to right
RECURSIVE RemoveAll(_, _)
RemoveAll(s, old) ==
    IF s = <<>> \/ old = <<>> THEN s
    ELSE IF IsPrefix(old, s) THEN RemoveAll(SubSeq(s, Len(old) + 1, Len(s)), old)
    ELSE <<Head(s)>> \o RemoveAll(Tail(s), old)

\* s.lstrip(chars) and s.rstrip(chars), chars a set of one-character tokens
RECURSIVE LStrip(_, _)
LStrip(s, chars) ==
    IF s # <<>> /\ Head(s) \in chars THEN LStrip(Tail(s), chars) ELSE s

RECURSIVE RStrip(_, _)
RStrip(s, chars) ==
    IF s # <<>> /\ s[Len(s)] \in chars THEN RStrip(SubSeq(s, 1, Len(s) - 1), chars) ELSE s

Whitespace == {" ", "\n", "\t"}

\* s.strip()
Strip(s) == RStrip(LStrip(s, Whitespace), Whitespace)

RECURSIVE TextsUpTo(_, _)
TextsUpTo(alphabet, n) ==
    IF n = 0 THEN {<<>>}
    ELSE LET shorter == TextsUpTo(alphabet, n - 1)
         IN  shorter \cup {Append(t, c) : t \in shorter, c \in alphabet}

----------------------------------------------------------------------------
(* get_doc_hash *)

\* rgx_space = re.compile(r" "): sub('', content) deletes every " "
RemoveSpaces(content) == SelectSeq(content, LAMBDA c : c # " ")

\* rgx_2_lines = re.compile(r"\n{2,}"): sub('\n', content) keeps the first
\* newline of every run of two or more and deletes the others
RECURSIVE Collapse2Lines(_)
Collapse2Lines(content) ==
    IF Len(content) < 2 THEN content
    ELSE IF content[1] = "\n" /\ content[2] = "\n"
         THEN Collapse2Lines(Tail(content))
         ELSE <<content[1]>> \o Collapse2Lines(Tail(content))

\* sha256(...).hexdigest(): collision resistant, so modelled as an injective
\* tagging of the normalized text
Sha256Hex(text) == <<"sha256">> \o text

GetDocHash(content) == Sha256Hex(Collapse2Lines(RemoveSpaces(content)))

\* VectorDBServiceInterface.rgx_space = re.compile(r"\s+"): sub('', content)
\* deletes every run of whitespace, newlines included
RemoveWhitespace(content) == SelectSeq(content, LAMBDA c : c \notin Whitespace)

\* VectorDBServiceInterface.get_content_hash
GetContentHash(content) == Sha256Hex(Collapse2Lines(RemoveWhitespace(content)))

----------------------------------------------------------------------------
(* Section trees *)

Headers == {<<"A">>, <<"B">>, <<"C">>}
Texts == {<<"x">>}

Node(h, c, subs) == [header |-> h, content |-> c, subsections |-> subs]

\* the forests (ordered lists of trees) with exactly n nodes; a node without
\* the optional 'subsections' key is a node whose subsections are <<>>
RECURSIVE ForestsOf(_)
ForestsOf(n) ==
    IF n = 0 THEN {<<>>}
    ELSE UNION {
           {<<Node(h, c, subs)>> \o rest :
               h \in Headers, c \in Texts,
               subs \in ForestsOf(k - 1), rest \in ForestsOf(n - k)}
           : k \in 1..n}

ForestsUpTo(n) == UNION {ForestsOf(k) : k \in 0..n}

Repeat(tok, n) == [i \in 1..n |-> tok]

AggregateOwnOnly(own, subs) == own

\* lines 981-982: the children's aggregated contents appended in child order
AggregateContent(own, subs) ==
    own \o Flatten([j \in 1..Len(subs) |-> <<"\n", "\n">> \o subs[j].content])

ParentsToPassImmediateOnly(parents, header) == <<header>>

\* lines 976-977: parents.copy() with the node's header appended
ParentsToPass(parents, header) == Append(parents, header)

\* enrich_sections(sections, parents, level); the top call has parents = []
\* and level = 1
RECURSIVE EnrichSections(_, _, _)
EnrichSections(sections, parents, level) ==
    [i \in 1..Len(sections) |->
        LET section == sections[i]
            header == section.header
            own == Repeat("#", level) \o <<" ">> \o header \o <<"\n", "\n">>
                     \o section.content
            subs == IF section.subsections # <<>>
                    THEN EnrichSections(section.subsections,
                                        ParentsToPass(parents, header), level + 1)
                    ELSE section.subsections
            content == AggregateContent(own, subs)
        IN  [header |-> header, content |-> content, subsections |-> subs,
             parents |-> parents, level |-> level]]

----------------------------------------------------------------------------
(* Tree cache *)

\* json.dumps(json_tree, indent=2) / json.load(fp): lossless on trees of
\* strings, lists and integers
JsonDumps(tree) == <<"json", tree>>
JsonLoad(file) == file[2]

\* get_cached_content_json_tree: (hash, res), res = None when no file exists
GetCachedContentJsonTree(cache, content, doc_hash) ==
    LET hash == IF doc_hash = None THEN GetDocHash(content) ELSE doc_hash
    IN  [hash |-> hash,
         hit |-> hash \in DOMAIN cache,
         res |-> IF hash \in DOMAIN cache THEN JsonLoad(cache[hash]) ELSE <<>>]

\* save_in_cache_content_json_tree
SaveInCacheContentJsonTree(cache, hash, json_tree) ==
    [h \in DOMAIN cache \cup {hash} |->
        IF h = hash THEN JsonDumps(json_tree) ELSE cache[h]]

\* Python truth value of the cached result: None and [] are both falsy
Truthy(hit, res) == hit /\ res # <<>>

----------------------------------------------------------------------------
(* split_content_with_llm *)

PromptTokenLimit == 100000
MaxTries == 5
EmbedTokenCap == 250000

\* tiktoken's count: every token of the model counts 1, except "<long>",
\* which stands for a passage longer than the prompt limit, and "<half>",
\* which stands for a passage of half the embedding cap
RECURSIVE CountTokens(_)
CountTokens(text) ==
    IF text = <<>> THEN 0
    ELSE (CASE Head(text) = "<long>" -> PromptTokenLimit + 1
            [] Head(text) = "<half>" -> EmbedTokenCap \div 2
            [] OTHER -> 1)
         + CountTokens(Tail(text))

Prompt(content) == <<"Rules...", "Text:">> \o content

TooManyTokensNever(prompt) == FALSE

\* lines 708-711: the token guard
TooManyTokens(prompt) == CountTokens(prompt) > PromptTokenLimit

UserMsg(text) == [role |-> "user", content |-> text]

\* what the completion service can answer: text holding a JSON array of
\* sections, text holding a bracketed array that is not valid JSON, or text
\* with no bracketed array at all
RespTrees == ForestsUpTo(1) \cup {<<Node(<<"A">>, <<"x">>, <<Node(<<"B">>, <<"x">>, <<>>)>>)>>}
JsonErrors == {"Expecting value", "Extra data"}
Responses ==
    {[kind |-> "array", tree |-> t, err |-> None] : t \in RespTrees}
    \cup {[kind |-> "badjson", tree |-> <<>>, err |-> e] : e \in JsonErrors}
    \cup {[kind |-> "nobracket", tree |-> <<>>, err |-> None]}

\* parse_llm_response_to_json_list: results.as_list()[0][0] raises IndexError
\* when search_string found no bracketed array; json.loads raises
\* JSONDecodeError on invalid JSON
ParseLlmResponseToJsonList(response) ==
    CASE response.kind = "nobracket" ->
            [exc |-> "IndexError", value |-> <<>>, msg |-> None]
      [] response.kind = "badjson" ->
            [exc |-> "JSONDecodeError", value |-> <<>>, msg |-> response.err]
      [] OTHER ->
            [exc |-> None, value |-> response.tree, msg |-> None]

ErrorMsg(msg) == UserMsg(<<"Your response is not valid JSON: ", msg>>)

ErrorsAfterKeepsLast(errors, msg) == <<ErrorMsg(msg)>>

\* the errors list after one more JSONDecodeError
ErrorsAfter(errors, msg) == Append(errors, ErrorMsg(msg))

\* the message list of one attempt
AttemptMessages(prompt, errors) == <<UserMsg(prompt)>> \o errors

Docs == {<<>>, <<"a">>, <<"a", " ">>, <<"b">>, <<"<long>">>}
DocHashArgs == {None, GetDocHash(<<"a">>), GetDocHash(<<"b">>)}

Returned(returned, hash, content, tree) ==
    [h \in DOMAIN returned \cup {hash} |->
        IF h = hash THEN [content |-> content, tree |-> tree] ELSE returned[h]]

\* lines 664-711: cache lookup, empty-content check, token guard
SplitStart(content, doc_hash) ==
    /\ spPc \in {"idle", "done"}
    /\ spCalls < MaxCalls
    /\ spCalls' = spCalls + 1
    /\ UNCHANGED notSplit
    /\ LET c == GetCachedContentJsonTree(jsonCache, content, doc_hash)
       IN  /\ spContent' = content
           /\ spHash' = c.hash
           /\ spErrors' = <<>>
           /\ spSent' = <<>>
           /\ spResponses' = <<>>
           /\ spBefore' = spReturned
           /\ spCacheBefore' = jsonCache
           /\ UNCHANGED jsonCache
           /\ IF Truthy(c.hit, c.res)
              THEN /\ spPc' = "done" /\ spOut' = "ok" /\ spRes' = c.res
                   /\ spReturned' = Returned(spReturned, c.hash, content, c.res)
              ELSE IF content = <<>>
              THEN /\ spPc' = "done" /\ spOut' = "ValueError: Empty content"
                   /\ spRes' = <<>> /\ UNCHANGED spReturned
              ELSE IF TooManyTokens(Prompt(content))
              THEN /\ spPc' = "done" /\ spOut' = "ValueError: TOO MANY TOKENS"
                   /\ spRes' = <<>> /\ UNCHANGED spReturned
              ELSE /\ spPc' = "try" /\ spOut' = "none"
                   /\ spRes' = <<>> /\ UNCHANGED spReturned

\* lines 714-732: one iteration of the retry loop and, when it parses, the
\* enrichment, the cache write and the return
SplitAttempt(response) ==
    /\ spPc = "try"
    /\ spSent' = Append(spSent, AttemptMessages(Prompt(spContent), spErrors))
    /\ spResponses' = Append(spResponses, response)
    /\ UNCHANGED <<spContent, spHash, spBefore, spCalls, spCacheBefore, notSplit>>
    /\ LET parsed == ParseLlmResponseToJsonList(response)
       IN  CASE parsed.exc = None ->
                  LET resp == EnrichSections(parsed.value, <<>>, 1)
                  IN  /\ jsonCache' = SaveInCacheContentJsonTree(jsonCache, spHash, resp)
                      /\ spPc' = "done" /\ spOut' = "ok" /\ spRes' = resp
                      /\ spReturned' = Returned(spReturned, spHash, spContent, resp)
                      /\ UNCHANGED spErrors
             [] parsed.exc = "JSONDecodeError" ->
                  /\ spErrors' = ErrorsAfter(spErrors, parsed.msg)
                  /\ UNCHANGED <<jsonCache, spRes, spReturned>>
                  /\ IF Len(spSent) + 1 = MaxTries
                     THEN spPc' = "done" /\ spOut' = "ValueError: can't return valid JSON"
                     ELSE spPc' = "try" /\ spOut' = "none"
             [] OTHER ->
                  /\ spPc' = "done" /\ spOut' = "IndexError"
                  /\ UNCHANGED <<jsonCache, spErrors, spRes, spReturned>>

NextSplit ==
    \/ \E content \in Docs, doc_hash \in DocHashArgs : SplitStart(content, doc_hash)
    \/ \E response \in Responses : SplitAttempt(response)

InitSplit == IdleButSplit /\ SplitIdle

SpecSplit == InitSplit /\ [][NextSplit]_vars

----------------------------------------------------------------------------
(* SpecHash: T' is obtained from T by inserting spaces and blank lines *)

HashAlphabet == {"a", "b", " ", "\n", "\t"}

InitHash ==
    /\ IdleButHash
    /\ hT \in TextsUpTo(HashAlphabet, MaxLen) \ {<<>>}
    /\ hT2 = hT
    /\ hOps = 0

\* a position at which a line starts: the start of the text, or just after
\* a newline.  A blank line inserted there is an empty line before that line.
IsLineStart(t, p) == IF p = 0 THEN TRUE ELSE t[p] = "\n"

InsertSpace ==
    /\ hOps < MaxInserts
    /\ \E p \in 0..Len(hT2) : hT2' = InsertAt(hT2, p, " ")
    /\ hOps' = hOps + 1
    /\ UNCHANGED <<hT, notHash>>

InsertBlankLine ==
    /\ hOps < MaxInserts
    /\ \E p \in 0..Len(hT2) :
          /\ IsLineStart(hT2, p)
          /\ hT2' = InsertAt(hT2, p, "\n")
    /\ hOps' = hOps + 1
    /\ UNCHANGED <<hT, notHash>>

NextHash == InsertSpace \/ InsertBlankLine

SpecHash == InitHash /\ [][NextHash]_vars

\* C4: for any text T, get_doc_hash(T) = get_doc_hash(T') for every T'
\* obtained from T by inserting extra spaces or extra blank lines.
C4_HashIdempotent == GetDocHash(hT2) = GetDocHash(hT)

\* C29: the document hash is the hash of the text after stripping all
\* whitespace characters (spaces, tabs and the like) and then collapsing every
\* run of 2 or more newlines into one; get_doc_hash therefore agrees with
\* VectorDBServiceInterface.get_content_hash on every text.
C29_HashStripsAllWhitespace ==
    /\ GetDocHash(hT2) = Sha256Hex(Collapse2Lines(SelectSeq(hT2, LAMBDA c : c \notin {" ", "\n", "\t"})))
    /\ GetDocHash(hT2) = GetContentHash(hT2)

\* what the two hashes do agree on: texts whose only whitespace is the space
HashesAgreeOnSpacesOnly ==
    (\A i \in 1..Len(hT2) : hT2[i] \notin {"\n", "\t"})
    => GetDocHash(hT2) = GetContentHash(hT2)

----------------------------------------------------------------------------
(* Claims about split_content_with_llm (SpecSplit) *)

CompletionCalls == Len(spSent)

\* C1: when every completion-service response fails to yield a parseable
\* JSON array (invalid JSON in the brackets, or no bracketed array at all),
\* split_content_with_llm makes exactly 5 completion calls and then fails
\* with the "can't return valid JSON" error.
C1_AlwaysMalformedFailsAfterFive ==
    (/\ spPc = "done"
     /\ spResponses # <<>>
     /\ \A i \in 1..Len(spResponses) : spResponses[i].kind # "array")
    => (/\ CompletionCalls = MaxTries
        /\ spOut = "ValueError: can't return valid JSON")

\* what holds when every response is bracketed text that is not valid JSON
BracketedInvalidJsonFailsAfterFive ==
    (/\ spPc = "done"
     /\ spResponses # <<>>
     /\ \A i \in 1..Len(spResponses) : spResponses[i].kind = "badjson")
    => (/\ CompletionCalls = MaxTries
        /\ spOut = "ValueError: can't return valid JSON")

FourBadThenValid ==
    /\ spPc = "done"
    /\ Len(spResponses) = 5
    /\ \A i \in 1..4 : spResponses[i].kind = "badjson"
    /\ spResponses[5].kind = "array"

\* C2: malformed JSON on attempts 1 to 4 and a valid JSON array on attempt 5:
\* the call succeeds with the tree parsed from the 5th response, and the
\* message list sent on attempt k is the original prompt followed by the
\* error messages of attempts 1..k-1, in order.
C2_FifthAttemptSucceeds ==
    FourBadThenValid =>
        /\ spOut = "ok"
        /\ spRes = EnrichSections(spResponses[5].tree, <<>>, 1)
        /\ \A k \in 1..5 :
              spSent[k] = <<[role |-> "user", content |-> Prompt(spContent)]>> \o
                          [j \in 1..(k - 1) |->
                              [role |-> "user",
                               content |-> <<"Your response is not valid JSON: ",
                                             spResponses[j].err>>]]

C2_Witness ==
    /\ FourBadThenValid
    /\ spResponses[1].err # spResponses[2].err
    /\ spResponses[5].tree # <<>>
    /\ spOut = "ok"

\* C3: a second split_content_with_llm call on the same hash after a
\* successful first call makes zero completion-service calls and returns the
\* tree the first call returned, for every tree the first call can produce,
\* including an empty one.
C3_CacheShortCircuit ==
    (/\ spPc = "done"
     /\ spHash \in DOMAIN spBefore
     /\ spBefore[spHash].content = spContent)
    => (/\ spOut = "ok"
        /\ CompletionCalls = 0
        /\ spRes = spBefore[spHash].tree)

SplitFailed == spPc = "done" /\ spOut # "ok"

\* C26: whenever split_content_with_llm fails (empty content, prompt above
\* 100,000 tokens, or retries exhausted) it returns no tree and leaves the
\* tree cache unchanged, so no partial or unenriched tree is ever cached; on
\* the token-guard failure it has made zero completion-service calls.
C26_FailureCachesNothing ==
    /\ SplitFailed => (spRes = <<>> /\ jsonCache = spCacheBefore)
    /\ spPc = "try" => jsonCache = spCacheBefore
    /\ \A h \in DOMAIN jsonCache :
          \E raw \in RespTrees : JsonLoad(jsonCache[h]) = EnrichSections(raw, <<>>, 1)
    /\ (spCalls > 0 /\ CountTokens(Prompt(spContent)) > 100000) => CompletionCalls = 0
    /\ (SplitFailed /\ CompletionCalls = 0) =>
          IF spContent = <<>> THEN spOut = "ValueError: Empty content"
          ELSE spOut = "ValueError: TOO MANY TOKENS"

\* a call that exhausts its five tries after an earlier call has filled the
\* cache under another hash
C26_Witness ==
    /\ SplitFailed
    /\ spOut = "ValueError: can't return valid JSON"
    /\ CompletionCalls = 5
    /\ spCacheBefore # EmptyMap
    /\ spHash \notin DOMAIN jsonCache

----------------------------------------------------------------------------
(* Answer modes, context formatting and _process_section_matchs *)

FIRST_BEST_RAW == "first_best_raw"
FIRST_BEST_SUMMARY == "first_best_summary"
TOP_K_RAW == "top_raw"
TOP_K_COMBINE == "top_k_combine"
TOP_K_SUMMARY == "top_k_summary"
TOP_K_RESTRANSCRIPT == "top_k_retranscript"

SectionAnswerModes == {FIRST_BEST_RAW, FIRST_BEST_SUMMARY, TOP_K_RAW, TOP_K_COMBINE,
                       TOP_K_SUMMARY, TOP_K_RESTRANSCRIPT}

DefaultTopK == 5

Min(a, b) == IF a <= b THEN a ELSE b

\* matchs[:top_k]
Take(matchs, top_k) == SubSeq(matchs, 1, Min(top_k, Len(matchs)))

HeaderSep == <<" ", "-", " ">>
ParentSep == <<" ", "-", ">", " ">>

\* dict.get(key) is truthy: the field is there and not empty
Present(field) == field # None /\ field # <<>>

\* _section_match_to_context_entry
SectionMatchToContextEntry(section_match) ==
    LET parents == section_match.parents
        header == IF parents # <<>>
                  THEN Strip(LStrip(Strip(RemoveAll(section_match.header,
                                                    Join(parents, HeaderSep))),
                                    {"-"}))
                  ELSE section_match.header
        parents_hierarchy == IF parents # <<>> THEN Join(parents, ParentSep) ELSE <<>>
    IN  <<"Header: ">> \o header
        \o <<"\n", "Parents Hierarchy: ">> \o parents_hierarchy
        \o <<"\n", "Level: ", ToString(section_match.level)>>
        \o <<"\n", "Semantic score: ", section_match.score>>
        \o <<"\n", "Source title: ">> \o section_match.source_title
        \o (IF Present(section_match.source_url)
            THEN <<"\n", "Source url: ">> \o section_match.source_url ELSE <<>>)
        \o (IF Present(section_match.source_author)
            THEN <<"\n", "Source author: ">> \o section_match.source_author ELSE <<>>)
        \o (IF Present(section_match.source_type)
            THEN <<"\n", "Source type: ">> \o section_match.source_type ELSE <<>>)
        \o <<"\n", "Content: ">> \o section_match.content

\* format_context_entries
FormatContextEntries(context_entries) ==
    <<"++++++++++++++++", "\n">>
    \o Join(context_entries, <<"\n", "~~~~~~~~~", "\n">>)
    \o <<"\n", "++++++++++++++++">>

ContextEntries(matchs) == [i \in 1..Len(matchs) |-> SectionMatchToContextEntry(matchs[i])]

\* SqlDBServiceInterface.get_content_from_id: the metadata store holds, under
\* every id, the content that was put there
SqlGetContentFromId(doc_id) == <<"stored content ", doc_id>>

\* the i-th section the header index knows: i - 1 ancestors, a hierarchized
\* header, optional source fields present on odd i
Match(i) ==
    LET parents == [j \in 1..(i - 1) |-> <<"P" \o ToString(j)>>]
    IN  [header |-> Join(Append(parents, <<"H" \o ToString(i)>>), HeaderSep),
         parents |-> parents,
         level |-> i,
         score |-> "0." \o ToString(10 - i),
         source_title |-> <<"title">>,
         source_url |-> IF i % 2 = 1 THEN <<"url">> ELSE None,
         source_author |-> None,
         source_type |-> IF i % 2 = 1 THEN <<>> ELSE <<"pdf">>,
         content |-> <<"content ", ToString(i)>>,
         sql_doc_id |-> "id" \o ToString(i)]

\* what get_possible_matchs_from_header can return: up to MaxMatches
\* matches, best first
MatchLists ==
    UNION {{[j \in 1..n |-> Match(j)], [j \in 1..n |-> Match(n + 1 - j)]} : n \in 0..MaxMatches}

LlmTexts == {<<"text 1">>, <<"text 2">>}

\* a Python None where a text is expected
NoValue == <<"<None>">>

Outcome(exc, result, llm) == [exc |-> exc, result |-> result, llm |-> llm]

FirstBestRawWorstMatch(matchs) ==
    Outcome(None, SqlGetContentFromId(matchs[Len(matchs)].sql_doc_id), 0)

\* line 488: the stored content of the best match
FirstBestRaw(matchs) == Outcome(None, SqlGetContentFromId(matchs[1].sql_doc_id), 0)

\* _process_section_matchs(matchs, mode, top_k, question); llmText is what
\* the completion service answers if it is called
ProcessSectionMatchs(matchs, mode, top_k, llmText) ==
    CASE mode = FIRST_BEST_RAW ->
            IF matchs = <<>> THEN Outcome("IndexError", <<>>, 0)
            ELSE FirstBestRaw(matchs)
      [] mode = FIRST_BEST_SUMMARY ->
            IF matchs = <<>> THEN Outcome("IndexError", <<>>, 0)
            ELSE Outcome(None, llmText, 1)
      [] mode = TOP_K_RAW ->
            Outcome(None, FormatContextEntries(ContextEntries(Take(matchs, top_k))), 0)
      [] mode \in {TOP_K_SUMMARY, TOP_K_COMBINE, TOP_K_RESTRANSCRIPT} ->
            Outcome(None, llmText, 1)
      [] OTHER -> Outcome(None, NoValue, 0)

\* the call of _process_section_matchs at the end of each entry point:
\* get_section_as_answer_from_question passes top_k on (line 356),
\* get_section_as_answer_from_header does not (line 332)
DispatchFromQuestion(matchs, mode, top_k, llmText) ==
    ProcessSectionMatchs(matchs, mode, top_k, llmText)

DispatchFromHeader(matchs, mode, top_k, llmText) ==
    ProcessSectionMatchs(matchs, mode, DefaultTopK, llmText)

----------------------------------------------------------------------------
(* get_answer and the section entry points *)

\* str.upper() and str.lower() on the words the model uses
Upper(w) ==
    CASE w \in {"one", "One"} -> "ONE"
      [] w \in {"few", "Few"} -> "FEW"
      [] w \in {"too_many"} -> "TOO_MANY"
      [] w \in {"summary"} -> "SUMMARY"
      [] OTHER -> w

Lower(w) ==
    CASE w \in {"YES", "Yes"} -> "yes"
      [] w \in {"NO", "No"} -> "no"
      [] OTHER -> w

\* what the completion service can answer to the classification prompt:
\* a JSON object (with or without 'kind'), or text without any JSON object
ClassifierResponses ==
    {[parse |-> "object", number_of_sentences |-> n, kind |-> k] :
        n \in {"ONE", "few", "TOO_MANY", "SEVERAL"},
        k \in {None, "summary", "COMBINING"}}
    \cup {[parse |-> p, number_of_sentences |-> None, kind |-> None] :
             p \in {"noobject", "badjson", "nokey"}}

\* _extract_to_json_object on the classifier's response: the first brace
\* group that opens a line, handed to json.loads. Without such a group
\* as_list()[0] raises IndexError; a group that is not JSON raises
\* JSONDecodeError
ExtractToJsonObjectDefaultingToOne(response) ==
    IF response.parse \in {"object", "nokey"}
    THEN [exc |-> None, obj |-> response]
    ELSE [exc |-> None, obj |-> [parse |-> "object", number_of_sentences |-> "ONE",
                                 kind |-> None]]

ExtractToJsonObject(response) ==
    CASE response.parse = "noobject" -> [exc |-> "IndexError", obj |-> None]
      [] response.parse = "badjson" -> [exc |-> "JSONDecodeError", obj |-> None]
      [] OTHER -> [exc |-> None, obj |-> response]

\* line 362: get_answer classifies when the caller gave no number_of_sentences
NeedsClassificationWithoutMode(mode, number_of_sentences) == mode = None

NeedsClassification(mode, number_of_sentences) == number_of_sentences = None

\* what it can answer to the self-verification prompt
VerifyReplies == {<<"YES">>, <<"No">>, <<"Yes", ",", " ", "it", " ", "does">>,
                  <<"I", " ", "cannot", " ", "tell">>}

\* check_if_answer_is_correct: 'yes' in to_parse.lower()
CheckIfAnswerIsCorrect(to_parse) ==
    \E i \in 1..Len(to_parse) : Lower(to_parse[i]) = "yes"

\* lines 369-374: kind when the caller gives number_of_sentences; the test
\* mode == TOP_K_COMBINE == "COMBINE" of line 371 is never true
KindFromMode(mode) ==
    IF mode = FIRST_BEST_SUMMARY \/ mode = TOP_K_SUMMARY THEN "SUMMARY" ELSE None

\* lines 388-392
ResolveModeFew(mode, return_raw) ==
    IF mode # None THEN mode
    ELSE IF return_raw THEN TOP_K_RAW ELSE TOP_K_COMBINE

ResolveModeTooManyIgnoringKind(mode, return_raw, kind) ==
    IF mode # None THEN mode
    ELSE IF return_raw THEN TOP_K_RAW ELSE TOP_K_COMBINE

\* lines 396-402
ResolveModeTooMany(mode, return_raw, kind) ==
    IF mode # None THEN mode
    ELSE IF return_raw THEN TOP_K_RAW
    ELSE IF kind = "SUMMARY" THEN TOP_K_RESTRANSCRIPT
    ELSE TOP_K_COMBINE

RouteUnknownAsOne(number_of_sentences) ==
    CASE number_of_sentences = "TOO_MANY" -> "headers"
      [] OTHER -> "direct"

RouteOneAsFew(number_of_sentences) ==
    CASE number_of_sentences = "FEW" -> "direct"
      [] number_of_sentences \in {"ONE", "TOO_MANY"} -> "headers"
      [] OTHER -> "done"

\* lines 376-406: where get_answer goes once number_of_sentences is known
Route(number_of_sentences) ==
    CASE number_of_sentences \in {"ONE", "FEW"} -> "direct"
      [] number_of_sentences = "TOO_MANY" -> "headers"
      [] OTHER -> "done"

\* a mode argument that is none of the six strategies
UnknownMode == "no_such_mode"

SectionModeArgs == SectionAnswerModes \cup {UnknownMode}
ModeArgs == SectionModeArgs \cup {None}
NosArgs == {None, "ONE", "FEW", "TOO_MANY", "MANY"}
TopKs == 1..MaxTopK

AnsFrame == UNCHANGED notAns

\* get_answer, lines 362-374 and the branch of lines 376-406
GetAnswerStart(top_k, return_raw, mode, number_of_sentences) ==
    /\ aPc = "idle"
    /\ aEntry' = "get_answer"
    /\ aArgs' = [top_k |-> top_k, return_raw |-> return_raw, mode |-> mode,
                 nos |-> number_of_sentences, use_alternates |-> TRUE,
                 known_titles |-> FALSE]
    /\ UNCHANGED <<aFirst, aMatchs, aResult, aLlm, aDispatchLlm, aSentQ, aHeadQ, aVerif,
                   aClassif>>
    /\ AnsFrame
    /\ IF NeedsClassification(mode, number_of_sentences)
       THEN /\ aPc' = "classify"
            /\ UNCHANGED <<aNos, aKind, aMode, aOut>>
       ELSE /\ aNos' = number_of_sentences
            /\ aKind' = KindFromMode(mode)
            /\ aPc' = Route(number_of_sentences)
            /\ aMode' = IF number_of_sentences = "TOO_MANY"
                        THEN ResolveModeTooMany(mode, return_raw, KindFromMode(mode))
                        ELSE mode
            /\ aOut' = IF Route(number_of_sentences) = "done"
                       THEN "ValueError: Wrong value for number_of_sentences"
                       ELSE "none"

\* _classify_answer_for_question and lines 366-367, then the branch
Classify(response) ==
    /\ aPc = "classify"
    /\ aLlm' = aLlm + 1
    /\ aClassif' = Append(aClassif, response.parse)
    /\ UNCHANGED <<aEntry, aArgs, aFirst, aMatchs, aResult, aDispatchLlm, aSentQ, aHeadQ,
                   aVerif>>
    /\ AnsFrame
    /\ IF ExtractToJsonObject(response).exc # None
       THEN /\ aPc' = "done"
            /\ aOut' = ExtractToJsonObject(response).exc
            /\ UNCHANGED <<aNos, aKind, aMode>>
       ELSE IF ExtractToJsonObject(response).obj.number_of_sentences = None
       THEN /\ aPc' = "done"
            /\ aOut' = "KeyError"
            /\ UNCHANGED <<aNos, aKind, aMode>>
       ELSE LET classified_answer == ExtractToJsonObject(response).obj
                nos == Upper(classified_answer.number_of_sentences)
                kind == IF classified_answer.kind # None
                        THEN Upper(classified_answer.kind) ELSE None
            IN  /\ aNos' = nos
                /\ aKind' = kind
                /\ aPc' = Route(nos)
                /\ aMode' = IF nos = "TOO_MANY"
                            THEN ResolveModeTooMany(aArgs.mode, aArgs.return_raw, kind)
                            ELSE aArgs.mode
                /\ aOut' = IF Route(nos) = "done"
                           THEN "ValueError: Wrong value for number_of_sentences"
                           ELSE "none"

\* get_direct_answer(question, use_alternates=True, use_hypothetical_answers=True):
\* question alternates, hypothetical answers, the sentence-index query, the
\* synthesis call
DirectAnswer(answer) ==
    /\ aPc = "direct"
    /\ aLlm' = aLlm + 3
    /\ aSentQ' = aSentQ + 1
    /\ aFirst' = answer
    /\ UNCHANGED <<aEntry, aArgs, aNos, aKind, aMode, aMatchs, aDispatchLlm, aHeadQ, aVerif,
                   aClassif>>
    /\ AnsFrame
    /\ IF aNos = "ONE"
       THEN aPc' = "done" /\ aOut' = "ok" /\ aResult' = answer
       ELSE aPc' = "verify" /\ UNCHANGED <<aOut, aResult>>

\* lines 383-394
Verify(reply) ==
    /\ aPc = "verify"
    /\ aLlm' = aLlm + 1
    /\ aVerif' = Append(aVerif, CheckIfAnswerIsCorrect(reply))
    /\ UNCHANGED <<aEntry, aArgs, aNos, aKind, aFirst, aMatchs, aDispatchLlm, aSentQ,
                   aHeadQ, aClassif>>
    /\ AnsFrame
    /\ IF CheckIfAnswerIsCorrect(reply)
       THEN aPc' = "done" /\ aOut' = "ok" /\ aResult' = aFirst /\ UNCHANGED aMode
       ELSE /\ aPc' = "headers"
            /\ aMode' = ResolveModeFew(aArgs.mode, aArgs.return_raw)
            /\ UNCHANGED <<aOut, aResult>>

\* a direct call of get_section_as_answer_from_question
SectionFromQuestionStart(mode, top_k, use_alternates, known_titles) ==
    /\ aPc = "idle"
    /\ aEntry' = "from_question"
    /\ aArgs' = [top_k |-> top_k, return_raw |-> FALSE, mode |-> mode, nos |-> None,
                 use_alternates |-> use_alternates, known_titles |-> known_titles]
    /\ aMode' = mode
    /\ aPc' = "headers"
    /\ UNCHANGED <<aNos, aKind, aFirst, aMatchs, aOut, aResult, aLlm, aDispatchLlm, aSentQ,
                   aHeadQ, aVerif, aClassif>>
    /\ AnsFrame

\* the completion calls of lines 314-319 / 340-345: header alternates, and
\* document titles unless the caller knows them
AlternateCalls(use_alternates, known_titles) ==
    IF ~use_alternates THEN 0 ELSE IF known_titles THEN 1 ELSE 2

\* get_section_as_answer_from_question, lines 339-351: the inferred headers
\* (possible_headers[0] raises IndexError on an empty list)
GenerateHeaders(nHeaders) ==
    /\ aPc = "headers"
    /\ UNCHANGED <<aEntry, aArgs, aNos, aKind, aMode, aFirst, aMatchs, aResult,
                   aDispatchLlm, aSentQ, aHeadQ, aVerif, aClassif>>
    /\ AnsFrame
    /\ IF nHeaders = 0
       THEN aPc' = "done" /\ aOut' = "IndexError" /\ aLlm' = aLlm + 1
       ELSE /\ aPc' = "query"
            /\ aLlm' = aLlm + 1 + AlternateCalls(aArgs.use_alternates, aArgs.known_titles)
            /\ UNCHANGED aOut

\* a direct call of get_section_as_answer_from_header, lines 314-328
SectionFromHeaderStart(mode, top_k, use_alternates, known_titles) ==
    /\ aPc = "idle"
    /\ aEntry' = "from_header"
    /\ aArgs' = [top_k |-> top_k, return_raw |-> FALSE, mode |-> mode, nos |-> None,
                 use_alternates |-> use_alternates, known_titles |-> known_titles]
    /\ aMode' = mode
    /\ aPc' = "query"
    /\ aLlm' = aLlm + AlternateCalls(use_alternates, known_titles)
    /\ UNCHANGED <<aNos, aKind, aFirst, aMatchs, aOut, aResult, aDispatchLlm, aSentQ,
                   aHeadQ, aVerif, aClassif>>
    /\ AnsFrame

\* get_possible_matchs_from_header and _process_section_matchs
\* (lines 330-332 and 354-356)
HeaderQuery(matchs, llmText) ==
    /\ aPc = "query"
    /\ aHeadQ' = aHeadQ + 1
    /\ aMatchs' = matchs
    /\ UNCHANGED <<aEntry, aArgs, aNos, aKind, aMode, aFirst, aSentQ, aVerif, aClassif>>
    /\ AnsFrame
    /\ LET r == IF aEntry = "from_header"
                THEN DispatchFromHeader(matchs, aMode, aArgs.top_k, llmText)
                ELSE DispatchFromQuestion(matchs, aMode, aArgs.top_k, llmText)
       IN  /\ aPc' = "done"
           /\ aOut' = IF r.exc = None THEN "ok" ELSE r.exc
           /\ aResult' = r.result
           /\ aLlm' = aLlm + r.llm
           /\ aDispatchLlm' = aDispatchLlm + r.llm

NextAnswer ==
    \/ \E top_k \in TopKs, return_raw \in BOOLEAN, mode \in ModeArgs, nos \in NosArgs :
          GetAnswerStart(top_k, return_raw, mode, nos)
    \/ \E response \in ClassifierResponses : Classify(response)
    \/ \E answer \in LlmTexts : DirectAnswer(answer)
    \/ \E reply \in VerifyReplies : Verify(reply)
    \/ \E mode \in SectionModeArgs, top_k \in TopKs, ua \in BOOLEAN, kt \in BOOLEAN :
          SectionFromQuestionStart(mode, top_k, ua, kt)
    \/ \E nHeaders \in 0..1 : GenerateHeaders(nHeaders)
    \/ \E mode \in SectionModeArgs, top_k \in TopKs, ua \in BOOLEAN, kt \in BOOLEAN :
          SectionFromHeaderStart(mode, top_k, ua, kt)
    \/ \E matchs \in MatchLists, llmText \in LlmTexts : HeaderQuery(matchs, llmText)

InitAnswer == IdleButAns /\ AnsIdle

SpecAnswer == InitAnswer /\ [][NextAnswer]_vars

----------------------------------------------------------------------------
(* Claims about get_answer and the answer dispatch (SpecAnswer) *)

\* C5: a question classified ONE is answered by the direct sentence-level
\* path only: whatever mode, return_raw and top_k are, get_answer never
\* queries the section-header index and never runs self-verification.
C5_OneIsDirectOnly ==
    (aEntry = "get_answer" /\ aNos = "ONE")
    => /\ aHeadQ = 0
       /\ aVerif = <<>>
       /\ aPc \in {"direct", "done"}
       /\ aPc = "done" => (aOut = "ok" /\ aSentQ = 1 /\ aResult = aFirst)

C5_Witness ==
    /\ aEntry = "get_answer" /\ aNos = "ONE" /\ aPc = "done"
    /\ aArgs.nos = None
    /\ aArgs.mode = TOP_K_RAW /\ aArgs.return_raw /\ aArgs.top_k = 2
    /\ aSentQ = 1

\* C6: for a question classified FEW, get_answer queries the section-header
\* index if and only if self-verification rejects the direct answer; the mode
\* then used is the caller's mode if supplied, otherwise TOP_K_RAW if
\* return_raw is set, otherwise TOP_K_COMBINE; when verification accepts, the
\* direct answer is returned unchanged.
C6_FewFallsBackIffRejected ==
    (aEntry = "get_answer" /\ aNos = "FEW" /\ aPc = "done")
    => /\ aVerif # <<>>
       /\ (aHeadQ > 0) <=> (aVerif = <<FALSE>>)
       /\ aVerif = <<FALSE>> =>
             aMode = (IF aArgs.mode # None THEN aArgs.mode
                      ELSE IF aArgs.return_raw THEN TOP_K_RAW ELSE TOP_K_COMBINE)
       /\ aVerif = <<TRUE>> => (aOut = "ok" /\ aResult = aFirst)

\* what holds of a FEW question in every run, the run that ends in the
\* IndexError of line 341 included: section retrieval is entered exactly when
\* verification rejects, with the mode of C6, and the header index is
\* queried only then
FewFallbackControlFlow ==
    (aEntry = "get_answer" /\ aNos = "FEW")
    => /\ aHeadQ > 0 => aVerif = <<FALSE>>
       /\ aPc \in {"headers", "query"} => aVerif = <<FALSE>>
       /\ (aPc = "done" /\ aVerif = <<FALSE>> /\ aOut # "IndexError") => aHeadQ = 1
       /\ aVerif = <<FALSE>> =>
             aMode = (IF aArgs.mode # None THEN aArgs.mode
                      ELSE IF aArgs.return_raw THEN TOP_K_RAW ELSE TOP_K_COMBINE)
       /\ aVerif = <<TRUE>> => (aPc = "done" /\ aOut = "ok" /\ aResult = aFirst)

\* C7: both section entry points, called with top_k = k and mode TOP_K_RAW
\* on n retrieved matches, return the banner-wrapped, separator-joined block
\* of exactly the first min(k, n) matches, in retrieval order.
C7_TopKRawFirstK ==
    (/\ aPc = "done"
     /\ aEntry \in {"from_header", "from_question"}
     /\ aMode = TOP_K_RAW
     /\ aHeadQ = 1)
    => /\ aOut = "ok"
       /\ aResult = FormatContextEntries(
             [i \in 1..Min(aArgs.top_k, Len(aMatchs)) |->
                 SectionMatchToContextEntry(aMatchs[i])])

\* C8: in the dispatch step with mode FIRST_BEST_RAW and at least one match,
\* the result is exactly the metadata-store content stored under the first
\* match's sql_doc_id, and the dispatch makes no completion-service call.
C8_FirstBestRawBypassesLlm ==
    (aPc = "done" /\ aHeadQ = 1 /\ aMode = FIRST_BEST_RAW /\ aMatchs # <<>>)
    => /\ aOut = "ok"
       /\ aResult = <<"stored content ", aMatchs[1].sql_doc_id>>
       /\ aDispatchLlm = 0

C8_Witness ==
    /\ aPc = "done" /\ aHeadQ = 1 /\ aMode = FIRST_BEST_RAW
    /\ Len(aMatchs) = 3
    /\ aOut = "ok"

\* C15: get_answer with a granularity value (classified or caller-supplied)
\* other than ONE, FEW or TOO_MANY fails with a fatal input error without
\* querying the sentence index or the section-header index.
C15_UnknownGranularityFails ==
    (aEntry = "get_answer" /\ aNos # None /\ aNos \notin {"ONE", "FEW", "TOO_MANY"})
    => /\ aPc = "done"
       /\ aOut = "ValueError: Wrong value for number_of_sentences"
       /\ aResult = <<>>
       /\ aSentQ = 0
       /\ aHeadQ = 0

C15_Witness ==
    /\ aEntry = "get_answer" /\ aPc = "done"
    /\ aArgs.nos = None /\ aNos = "SEVERAL" /\ aLlm = 1
    /\ aArgs.mode = TOP_K_RAW
    /\ aOut = "ValueError: Wrong value for number_of_sentences"

\* C16: an unrecognized Answer Mode is an input error: a section-answer call
\* given a mode that is none of the six enumerated strategies fails
\* immediately with an error surfaced to the caller, and never returns a
\* result.
C16_UnknownModeFails ==
    (/\ aEntry \in {"from_header", "from_question"}
     /\ aArgs.mode \notin SectionAnswerModes)
    => /\ aHeadQ = 0
       /\ aPc = "done" => aOut # "ok"

\* the header index has answered the query with no match
DispatchedOnNoMatch == aPc = "done" /\ aHeadQ = 1 /\ aMatchs = <<>>

\* C35: when the header index returns zero matches, answer dispatch handles
\* every Answer Mode without an unhandled failure: no mode of
\* _process_section_matchs raises on an empty match list.
C35_NoMatchNeverRaises ==
    DispatchedOnNoMatch => aOut = "ok"

\* what does hold: on an empty match list the four TOP_K modes return, and
\* the two FIRST_BEST modes raise IndexError
NoMatchRaisesForFirstBestOnly ==
    DispatchedOnNoMatch =>
        /\ aMode \in {TOP_K_RAW, TOP_K_SUMMARY, TOP_K_COMBINE, TOP_K_RESTRANSCRIPT}
              => aOut = "ok"
        /\ aMode \in {FIRST_BEST_RAW, FIRST_BEST_SUMMARY} => aOut = "IndexError"

\* C21 as stated: the Classify step is skipped whenever the caller forces
\* an Answer Mode: get_answer called with an explicit mode makes no
\* classification call to the completion service.
C21_ForcedModeSkipsClassify ==
    (aEntry = "get_answer" /\ aArgs.mode # None) => aClassif = <<>>

\* C21 as the code has it: the Classify step is skipped exactly when the
\* caller supplies number_of_sentences. get_answer called with
\* number_of_sentences makes no classification call; called without it, it
\* makes exactly one, whether or not a mode is given.
C21_GivenGranularitySkipsClassify ==
    aEntry = "get_answer"
    => IF aArgs.nos # None
       THEN aClassif = <<>> /\ aPc # "classify"
       ELSE IF aPc = "classify" THEN aClassif = <<>> ELSE Len(aClassif) = 1

C21_Witness ==
    /\ aEntry = "get_answer" /\ aPc = "done" /\ aOut = "ok"
    /\ aArgs.nos = "FEW" /\ aArgs.mode = None
    /\ aClassif = <<>>
    /\ aHeadQ = 1

\* C28: malformed classifier output is fatal with no retry: when the
\* classification response contains no parseable JSON object, get_answer
\* fails after exactly one completion-service call and performs no sentence
\* or section retrieval.
C28_MalformedClassifierFatal ==
    (/\ aEntry = "get_answer"
     /\ aClassif # <<>>
     /\ aClassif[1] \in {"noobject", "badjson"})
    => /\ aPc = "done"
       /\ aOut \in {"IndexError", "JSONDecodeError"}
       /\ aResult = <<>>
       /\ Len(aClassif) = 1
       /\ aLlm = 1
       /\ aSentQ = 0
       /\ aHeadQ = 0

C28_Witness ==
    /\ aEntry = "get_answer" /\ aPc = "done"
    /\ aClassif = <<"badjson">>
    /\ aArgs.mode = TOP_K_RAW
    /\ aOut = "JSONDecodeError"

\* C30: a question of granularity TOO_MANY goes to section retrieval without
\* running the direct sentence-level path or self-verification, and the mode
\* used is the caller's explicit mode if supplied, otherwise TOP_K_RAW if
\* return_raw is set, otherwise TOP_K_RESTRANSCRIPT if the classified kind is
\* SUMMARY, otherwise TOP_K_COMBINE.
C30_TooManyGoesToSections ==
    (aEntry = "get_answer" /\ aNos = "TOO_MANY")
    => /\ aSentQ = 0
       /\ aVerif = <<>>
       /\ aFirst = <<>>
       /\ aPc \in {"headers", "query", "done"}
       /\ (aPc = "done" /\ aOut = "ok") => aHeadQ = 1
       /\ aMode = (IF aArgs.mode # None THEN aArgs.mode
                   ELSE IF aArgs.return_raw THEN TOP_K_RAW
                   ELSE IF aClassif # <<>> /\ aKind = "SUMMARY" THEN TOP_K_RESTRANSCRIPT
                   ELSE TOP_K_COMBINE)

C30_Witness ==
    /\ aEntry = "get_answer" /\ aNos = "TOO_MANY" /\ aPc = "done" /\ aOut = "ok"
    /\ aArgs.mode = None /\ ~aArgs.return_raw
    /\ aClassif = <<"object">> /\ aKind = "SUMMARY"
    /\ aMode = TOP_K_RESTRANSCRIPT
    /\ aHeadQ = 1

----------------------------------------------------------------------------
(* save_text_as_titles_in_vdb: enrich, persist, linearize, strip *)

\* SqlDBServiceInterface.add_header_content_in_sdb: the store keeps what is
\* put and answers with a fresh opaque id
SqlId(n) == "id" \o ToString(n)
SqlPut(store, header, content) == Append(store, [header |-> header, content |-> content])

\* _save_sections_in_sql_db(doc_hash, sections): every node is put, a node
\* before its subsections, and gets its sql_doc_id; the result is the
\* updated sections and store
RECURSIVE SaveSectionsInSqlDb(_, _)
SaveSectionsInSqlDb(sections, store) ==
    IF sections = <<>> THEN [sections |-> <<>>, store |-> store]
    ELSE LET section == Head(sections)
             store1 == SqlPut(store, section.header, section.content)
             subs == SaveSectionsInSqlDb(section.subsections, store1)
             saved == [header |-> section.header, content |-> section.content,
                       subsections |-> subs.sections, parents |-> section.parents,
                       level |-> section.level, sql_doc_id |-> SqlId(Len(store1))]
             rest == SaveSectionsInSqlDb(Tail(sections), subs.store)
         IN  [sections |-> <<saved>> \o rest.sections, store |-> rest.store]

\* section.copy() with 'header' replaced
WithHeader(section, header) == [section EXCEPT !.header = header]

HierarchizedRowsLongestFirst(section) ==
    LET parents == section.parents
        n == Len(parents)
    IN  [k \in 1..n |->
            WithHeader(section,
                       Join(Append(SubSeq(parents, k, n), section.header), HeaderSep))]

HierarchizedRowsSkipRoot(section) ==
    LET parents == section.parents
        n == Len(parents)
    IN  [k \in 1..(n - 1) |->
            WithHeader(section,
                       Join(Append(SubSeq(parents, n - k + 1, n), section.header),
                            HeaderSep))]

\* lines 1020-1027: for i = len(parents) - 1 down to 0, a copy of the section
\* whose header is ' - '.join(parents[i:] + [header]); the k-th row made
\* takes the last k parents
HierarchizedRows(section) ==
    LET parents == section.parents
        n == Len(parents)
    IN  [k \in 1..n |->
            WithHeader(section,
                       Join(Append(SubSeq(parents, n - k + 1, n), section.header),
                            HeaderSep))]

\* _linearize_sections
RECURSIVE LinearizeSections(_, _)
LinearizeSections(sections, add_hierarchized_titles) ==
    IF sections = <<>> THEN <<>>
    ELSE LET section == Head(sections)
         IN  <<section>>
             \o (IF add_hierarchized_titles /\ section.parents # <<>>
                 THEN HierarchizedRows(section) ELSE <<>>)
             \o LinearizeSections(section.subsections, add_hierarchized_titles)
             \o LinearizeSections(Tail(sections), add_hierarchized_titles)

RemoveSubsectionsOnly(sections) ==
    [i \in 1..Len(sections) |->
        [header |-> sections[i].header, content |-> sections[i].content,
         parents |-> sections[i].parents, level |-> sections[i].level,
         sql_doc_id |-> sections[i].sql_doc_id]]

\* _remove_subsections_in_sections: pop 'subsections' and 'content'
RemoveSubsectionsInSections(sections) ==
    [i \in 1..Len(sections) |->
        [header |-> sections[i].header, parents |-> sections[i].parents,
         level |-> sections[i].level, sql_doc_id |-> sections[i].sql_doc_id]]

\* VectorDBServiceInterface.insert_section_headers
InsertSectionHeaders(store, sections) == Append(store, sections)

\* SqlDBServiceInterface.get_content_from_id on the store of this ingestion
SqlContentOf(store, sql_doc_id) ==
    store[CHOOSE k \in 1..Len(store) : SqlId(k) = sql_doc_id].content

\* a match of get_possible_matchs_from_header: the indexed row with its
\* score, the source fields of the ingestion and the stored content
MatchOfRow(row, store) ==
    [header |-> row.header, parents |-> row.parents, level |-> row.level,
     score |-> "0.9", source_title |-> <<"title">>, source_url |-> None,
     source_author |-> None, source_type |-> None,
     content |-> SqlContentOf(store, row.sql_doc_id),
     sql_doc_id |-> row.sql_doc_id]

InitTree ==
    /\ IdleButTree
    /\ tPc = "raw"
    /\ tHier \in BOOLEAN
    /\ tRaw \in ForestsUpTo(MaxNodes)
    /\ tTree = tRaw
    /\ tSql = <<>>
    /\ tRows = <<>>
    /\ tIndex = <<>>
    /\ tMatchs = <<>>
    /\ tEntries = <<>>

\* line 728, inside split_content_with_llm
Enrich ==
    /\ tPc = "raw"
    /\ tTree' = EnrichSections(tTree, <<>>, 1)
    /\ tPc' = "enriched"
    /\ UNCHANGED <<tHier, tRaw, tSql, tRows, tIndex, tMatchs, tEntries, notTree>>

\* line 241
SaveSections ==
    /\ tPc = "enriched"
    /\ LET r == SaveSectionsInSqlDb(tTree, tSql)
       IN  tTree' = r.sections /\ tSql' = r.store
    /\ tPc' = "saved"
    /\ UNCHANGED <<tHier, tRaw, tRows, tIndex, tMatchs, tEntries, notTree>>

\* line 246
Linearize ==
    /\ tPc = "saved"
    /\ tRows' = LinearizeSections(tTree, tHier)
    /\ tPc' = "rows"
    /\ UNCHANGED <<tHier, tRaw, tTree, tSql, tIndex, tMatchs, tEntries, notTree>>

\* lines 247-250
RemoveSubsections ==
    /\ tPc = "rows"
    /\ tRows # <<>>
    /\ tRows' = RemoveSubsectionsInSections(tRows)
    /\ tPc' = "stripped"
    /\ UNCHANGED <<tHier, tRaw, tTree, tSql, tIndex, tMatchs, tEntries, notTree>>

\* line 255
InsertHeaders ==
    /\ tPc = "stripped"
    /\ tIndex' = InsertSectionHeaders(tIndex, tRows)
    /\ tPc' = "inserted"
    /\ UNCHANGED <<tHier, tRaw, tTree, tSql, tRows, tMatchs, tEntries, notTree>>

\* a header query that gets the k-th indexed row back, and line 500: the
\* context entry of each match
Retrieve(k) ==
    /\ tPc = "inserted"
    /\ tMatchs' = <<MatchOfRow(tIndex[1][k], tSql)>>
    /\ tEntries' = ContextEntries(tMatchs')
    /\ tPc' = "retrieved"
    /\ UNCHANGED <<tHier, tRaw, tTree, tSql, tRows, tIndex, notTree>>

NextTree ==
    \/ Enrich
    \/ SaveSections
    \/ Linearize
    \/ RemoveSubsections
    \/ InsertHeaders
    \/ \E k \in 1..Len(tRows) : Retrieve(k)

SpecTree == InitTree /\ [][NextTree]_vars

----------------------------------------------------------------------------
(* Claims about enrichment and linearization (SpecTree) *)

\* every node of a forest, a node before its descendants
RECURSIVE AllNodes(_)
AllNodes(sections) ==
    IF sections = <<>> THEN <<>>
    ELSE <<Head(sections)>> \o AllNodes(Head(sections).subsections)
         \o AllNodes(Tail(sections))

Range(f) == {f[i] : i \in DOMAIN f}

RowsOf(node) == SelectSeq(tRows, LAMBDA r : r.sql_doc_id = node.sql_doc_id)

\* the headers C9 names for a node: for each suffix of its ancestor chain,
\* the empty one included, the suffix and the node's header joined by ' - '
FanOutHeaders(node) ==
    {Join(SubSeq(node.parents, i, Len(node.parents)) \o <<node.header>>, <<" ", "-", " ">>) :
        i \in 1..(Len(node.parents) + 1)}

\* C9: with hierarchized titles enabled a node with k ancestors yields
\* exactly k+1 linearized rows, its plain header plus one row per non-empty
\* suffix of the ancestor chain joined with ' - ' and the header, all carrying
\* the node's sql_doc_id; with hierarchized titles disabled every node yields
\* exactly 1 row.
C9_LinearizationFanOut ==
    tPc \in {"rows", "stripped"} =>
        /\ \A r \in Range(tRows) : \E node \in Range(AllNodes(tTree)) :
              r.sql_doc_id = node.sql_doc_id
        /\ \A node \in Range(AllNodes(tTree)) :
              LET rows == RowsOf(node)
              IN  IF tHier
                  THEN /\ Len(rows) = Len(node.parents) + 1
                       /\ {rows[i].header : i \in 1..Len(rows)} = FanOutHeaders(node)
                  ELSE /\ Len(rows) = 1
                       /\ rows[1].header = node.header

C9_Witness ==
    /\ tPc = "rows"
    /\ tHier
    /\ \E node \in Range(AllNodes(tTree)) :
          /\ node.parents = <<<<"A">>, <<"B">>>>
          /\ node.header = <<"C">>
          /\ Len(RowsOf(node)) = 3
          /\ {RowsOf(node)[i].header : i \in 1..3} =
                {<<"C">>, <<"B", " ", "-", " ", "C">>,
                 <<"A", " ", "-", " ", "B", " ", "-", " ", "C">>}

\* the place of a node's own row: the first row carrying its sql_doc_id
OwnRow(node) ==
    CHOOSE i \in 1..Len(tRows) :
        /\ tRows[i].sql_doc_id = node.sql_doc_id
        /\ \A j \in 1..(i - 1) : tRows[j].sql_doc_id # node.sql_doc_id

\* the header made of the ancestors from the i-th on and the node's header
SuffixHeader(node, i) ==
    Join(SubSeq(node.parents, i, Len(node.parents)) \o <<node.header>>, <<" ", "-", " ">>)

\* C20: in the output of _linearize_sections with hierarchized titles
\* enabled, the synthetic rows of a node follow the node's own row and are
\* ordered from the longest ancestor suffix to the shortest (for chain [A, B]
\* and header C: 'A - B - C' before 'B - C').
C20_LongestSuffixFirst ==
    (tPc \in {"rows", "stripped"} /\ tHier) =>
        \A node \in Range(AllNodes(tTree)) :
            /\ tRows[OwnRow(node)].header = node.header
            /\ \A k \in 1..Len(node.parents) :
                  tRows[OwnRow(node) + k].header = SuffixHeader(node, k)

\* C20 as the code has it: the synthetic rows of a node follow the node's
\* own row and are ordered from the shortest ancestor suffix to the longest
\* (for chain [A, B] and header C: 'B - C' before 'A - B - C').
C20_ShortestSuffixFirst ==
    (tPc \in {"rows", "stripped"} /\ tHier) =>
        \A node \in Range(AllNodes(tTree)) :
            /\ tRows[OwnRow(node)].header = node.header
            /\ \A k \in 1..Len(node.parents) :
                  tRows[OwnRow(node) + k].header =
                      SuffixHeader(node, Len(node.parents) - k + 1)

C20_Witness ==
    /\ tPc = "rows"
    /\ tHier
    /\ \E i \in 1..(Len(tRows) - 2) :
          /\ tRows[i].parents = <<<<"A">>, <<"B">>>>
          /\ tRows[i].header = <<"C">>
          /\ tRows[i + 1].header = <<"B", " ", "-", " ", "C">>
          /\ tRows[i + 2].header = <<"A", " ", "-", " ", "B", " ", "-", " ", "C">>

IsSubstring(sub, text) ==
    \E i \in 0..(Len(text) - Len(sub)) : SubSeq(text, i + 1, i + Len(sub)) = sub

\* the containment of C10 for the nodes of one list and, by recursion, for
\* their descendants: raw is the list before enrichment, level its depth
RECURSIVE Contained(_, _, _)
Contained(raw, enriched, level) ==
    /\ Len(enriched) = Len(raw)
    /\ \A i \in 1..Len(raw) :
          LET node == enriched[i]
              own == [j \in 1..level |-> "#"] \o <<" ">> \o raw[i].header
                       \o <<"\n", "\n">> \o raw[i].content
              children == node.subsections
          IN  /\ node.content =
                    own \o Flatten([j \in 1..Len(children) |->
                                       <<"\n", "\n">> \o children[j].content])
              /\ \A d \in Range(AllNodes(children)) : IsSubstring(d.content, node.content)
              /\ Contained(raw[i].subsections, children, level + 1)

\* C10: after enrich_sections every node's aggregated content is its own
\* heading-prefixed text followed by the aggregated content of each of its
\* children in child order, so it contains every descendant's aggregated
\* content as a substring, in document order.
C10_EnrichmentContainment ==
    tPc \in {"enriched", "saved"} => Contained(tRaw, tTree, 1)

C10_Witness ==
    /\ tPc = "enriched"
    /\ Len(tTree) = 1
    /\ Len(tTree[1].subsections) = 2
    /\ tTree[1].subsections[1].subsections # <<>>
    /\ tTree[1].subsections[1].header # tTree[1].subsections[2].header

\* the node of the tree a row or a match belongs to
NodeOf(r) == CHOOSE node \in Range(AllNodes(tTree)) : node.sql_doc_id = r.sql_doc_id

\* the context entry starts with the line 'Header: <header>'
HeaderFieldIs(entry, header) ==
    IsPrefix(<<"Header: ">> \o header \o <<"\n", "Parents Hierarchy: ">>, entry)

\* C22: the context formatter renders the node's own plain header for every
\* linearized row of that node: for a match whose header is any hierarchized
\* variant (any non-empty suffix of the ancestor chain joined with ' - ' and
\* the node's header), the 'Header:' field of the context entry is the node's
\* header with the ancestor prefix removed.
C22_ContextEntryHasPlainHeader ==
    tPc = "retrieved" =>
        \A k \in 1..Len(tMatchs) :
            HeaderFieldIs(tEntries[k], NodeOf(tMatchs[k]).header)

\* what the formatter does achieve: the plain header for the node's own row
\* and for the row that carries the whole ancestor chain, provided the
\* joined chain does not occur inside the node's header itself
PlainHeaderForOwnAndWholeChainRows ==
    tPc = "retrieved" =>
        \A k \in 1..Len(tMatchs) :
            LET node == NodeOf(tMatchs[k])
                chain == Join(node.parents, HeaderSep)
            IN  (/\ tMatchs[k].header \in
                       {node.header, Join(Append(node.parents, node.header), HeaderSep)}
                 /\ node.parents # <<>> => ~IsSubstring(chain, node.header))
                => HeaderFieldIs(tEntries[k], node.header)

\* the metadata store holds every node of the tree, a node before its
\* descendants, under the node's sql_doc_id, with the node's header and its
\* full aggregated content
StoreHoldsEveryNode ==
    LET enriched == AllNodes(EnrichSections(tRaw, <<>>, 1))
        nodes == AllNodes(tTree)
    IN  /\ Len(tSql) = Len(enriched)
        /\ Len(nodes) = Len(enriched)
        /\ \A k \in 1..Len(enriched) :
              /\ tSql[k] = [header |-> enriched[k].header, content |-> enriched[k].content]
              /\ nodes[k].sql_doc_id = SqlId(k)
              /\ nodes[k].header = enriched[k].header

\* C25: in save_text_as_titles_in_vdb every node of the tree is put into the
\* metadata store with its full aggregated content before any row is
\* stripped, and every row then handed to the title index carries the
\* sql_doc_id of its node and has neither 'content' nor 'subsections'.
C25_StoreBeforeStrip ==
    /\ tPc \in {"rows", "stripped", "inserted", "retrieved"} => StoreHoldsEveryNode
    /\ tPc \in {"raw", "enriched", "saved"} => (tRows = <<>> /\ tIndex = <<>>)
    /\ tPc \in {"raw", "enriched", "saved", "rows", "stripped"} => tIndex = <<>>
    /\ tPc \in {"inserted", "retrieved"} =>
          /\ Len(tIndex) = 1
          /\ tIndex[1] # <<>>
          /\ \A r \in Range(tIndex[1]) :
                /\ DOMAIN r = {"header", "parents", "level", "sql_doc_id"}
                /\ \E node \in Range(AllNodes(tTree)) :
                      /\ node.sql_doc_id = r.sql_doc_id
                      /\ r.header \in FanOutHeaders(node)
                      /\ r.parents = node.parents
          /\ \A node \in Range(AllNodes(tTree)) :
                \E r \in Range(tIndex[1]) :
                    r.sql_doc_id = node.sql_doc_id /\ r.header = node.header

C25_Witness ==
    /\ tPc = "inserted"
    /\ tHier
    /\ Len(tSql) = 3
    /\ Len(tTree) = 1 /\ Len(tTree[1].subsections) = 1
    /\ Len(tIndex[1]) = 6
    /\ tSql[1].content = tTree[1].content
    /\ IsSubstring(tSql[3].content, tSql[1].content)

\* every node of sections has the parent chain chain and the level that goes
\* with it, and so have its descendants with the chain extended by the node's
\* header
RECURSIVE ChainsFromRoot(_, _)
ChainsFromRoot(sections, chain) ==
    \A i \in 1..Len(sections) :
        /\ sections[i].parents = chain
        /\ sections[i].level = Len(chain) + 1
        /\ ChainsFromRoot(sections[i].subsections, Append(chain, sections[i].header))

\* C27: after enrich_sections, every node's 'parents' is exactly the list of
\* its ancestors' headers from the root down to its immediate parent, and its
\* 'level' equals len(parents) + 1 (roots have level 1 and empty parents);
\* sibling subtrees never see each other's headers in their parent chains.
C27_ParentsAreAncestorChain ==
    tPc \in {"enriched", "saved"} =>
        /\ ChainsFromRoot(tTree, <<>>)
        /\ \A i \in 1..Len(tTree) : tTree[i].header = tRaw[i].header

C27_Witness ==
    /\ tPc = "enriched"
    /\ Len(tTree) = 1
    /\ tTree[1].header = <<"A">> /\ tTree[1].parents = <<>> /\ tTree[1].level = 1
    /\ Len(tTree[1].subsections) = 2
    /\ tTree[1].subsections[1].header = <<"B">>
    /\ Len(tTree[1].subsections[1].subsections) = 1
    /\ tTree[1].subsections[1].subsections[1].parents = <<<<"A">>, <<"B">>>>
    /\ tTree[1].subsections[1].subsections[1].level = 3
    /\ tTree[1].subsections[2].header = <<"C">>
    /\ tTree[1].subsections[2].parents = <<<<"A">>>>

\* what holds of the entry point that passes top_k on
TopKRawFromQuestion ==
    (/\ aPc = "done"
     /\ aEntry \in {"from_question", "get_answer"}
     /\ aMode = TOP_K_RAW
     /\ aHeadQ = 1)
    => /\ aOut = "ok"
       /\ aResult = FormatContextEntries(
             [i \in 1..Min(aArgs.top_k, Len(aMatchs)) |->
                 SectionMatchToContextEntry(aMatchs[i])])

\* what holds of the cache when the first call returned a non-empty tree
NonEmptyTreeShortCircuits ==
    (/\ spPc = "done"
     /\ spHash \in DOMAIN spBefore
     /\ spBefore[spHash].content = spContent
     /\ spBefore[spHash].tree # <<>>)
    => (/\ spOut = "ok"
        /\ CompletionCalls = 0
        /\ spRes = spBefore[spHash].tree)

----------------------------------------------------------------------------
(* split_content_by_sentences: the sentence-window chunker (SpecChunk) *)

DefaultCount == 5

Terminators == {".", "?", "!", "\n"}
Blanks == {"\n", " "}

\* the length of the run of [\n ] characters that starts at position p
RECURSIVE BlankRun(_, _)
BlankRun(text, p) ==
    IF p <= Len(text) /\ text[p] \in Blanks THEN 1 + BlankRun(text, p + 1) ELSE 0

\* rgx_sentence_limiter.match(text): the length of the match of
\* ((?:[\.\?!\n][\n ]+)|(?:\n)) at the start of text, 0 when there is none
SentenceLimiterMatch(text) ==
    IF text = <<>> THEN 0
    ELSE IF Head(text) \in Terminators /\ BlankRun(text, 2) > 0
         THEN 1 + BlankRun(text, 2)
    ELSE IF Head(text) = "\n" THEN 1
    ELSE 0

\* rgx_sentence_limiter.split(text): the pattern is one capturing group, so
\* the separators are returned between the pieces they separate; cur is the
\* piece being read, acc the list built so far
RECURSIVE SentenceLimiterSplit(_, _, _)
SentenceLimiterSplit(text, cur, acc) ==
    IF text = <<>> THEN Append(acc, cur)
    ELSE LET m == SentenceLimiterMatch(text)
         IN  IF m > 0
             THEN SentenceLimiterSplit(SubSeq(text, m + 1, Len(text)), <<>>,
                                       acc \o <<cur, SubSeq(text, 1, m)>>)
             ELSE SentenceLimiterSplit(Tail(text), Append(cur, Head(text)), acc)

\* lines 746-747: the stripped pieces that are not empty
Lines(markdown_content) ==
    LET pieces == SentenceLimiterSplit(markdown_content, <<>>, <<>>)
        stripped == [i \in 1..Len(pieces) |-> Strip(pieces[i])]
    IN  SelectSeq(stripped, LAMBDA senten : senten # <<>>)

\* the values of range(start, stop, step), step > 0
PyRange(start, stop, step) ==
    IF stop <= start THEN <<>>
    ELSE [k \in 1..((stop - start + step - 1) \div step) |-> start + (k - 1) * step]

WindowStartsStopAtTwo(total_lines) == PyRange(0, total_lines - 2, 2)

WindowStartsEveryIndex(total_lines) == PyRange(0, total_lines - 3, 1)

\* line 755: the values of i
WindowStarts(total_lines) == PyRange(0, total_lines - 3, 2)

WindowSpanTwoSlots(i, count, total_lines) ==
    [first |-> i + 1, last |-> Min(i + 2, total_lines)]

\* lines 756 and 758: lines[i:step] with step = i + count * 2, as the first
\* and the last fragment taken, counted from 1
WindowSpan(i, count, total_lines) ==
    [first |-> i + 1, last |-> Min(i + count * 2, total_lines)]

\* lines 757-762: the window made of parts
Sentence(parts) ==
    Flatten([j \in 1..Len(parts) |->
                IF SentenceLimiterMatch(parts[j]) > 0 THEN parts[j]
                ELSE <<" ">> \o parts[j]])

Spans(lines, count) ==
    LET starts == WindowStarts(Len(lines))
    IN  [k \in 1..Len(starts) |-> WindowSpan(starts[k], count, Len(lines))]

\* lines 753-763: sentences_set
SentencesSet(lines, count) ==
    LET spans == Spans(lines, count)
    IN  [k \in 1..Len(spans) |-> Sentence(SubSeq(lines, spans[k].first, spans[k].last))]

ChunkPieces == {<<"a", ".", " ">>, <<"a">>, <<".">>, <<" ">>, <<"\n">>}
Counts == {1, 2, DefaultCount}

\* the texts made of at most n pieces
RECURSIVE PieceTexts(_)
PieceTexts(n) ==
    IF n = 0 THEN {<<>>}
    ELSE LET shorter == PieceTexts(n - 1)
         IN  shorter \cup {t \o piece : t \in shorter, piece \in ChunkPieces}

InitChunk ==
    /\ IdleButChunk
    /\ cPc = "text"
    /\ cText \in PieceTexts(MaxPieces) \ {<<>>}
    /\ cCount \in Counts
    /\ cLines = <<>>
    /\ cSpans = <<>>
    /\ cWindows = <<>>

\* lines 746-747
SplitLines ==
    /\ cPc = "text"
    /\ cLines' = Lines(cText)
    /\ cPc' = "lines"
    /\ UNCHANGED <<cText, cCount, cSpans, cWindows, notChunk>>

\* lines 753-763
BuildWindows ==
    /\ cPc = "lines"
    /\ cSpans' = Spans(cLines, cCount)
    /\ cWindows' = SentencesSet(cLines, cCount)
    /\ cPc' = "windows"
    /\ UNCHANGED <<cText, cCount, cLines, notChunk>>

NextChunk == SplitLines \/ BuildWindows

SpecChunk == InitChunk /\ [][NextChunk]_vars

----------------------------------------------------------------------------
(* Claims about the chunker (SpecChunk) *)

\* C12: the chunker returns an empty window list for every text with fewer
\* than 4 non-empty fragments, and at least one window for every text with 4
\* or more.
C12_WindowsIffFourFragments ==
    cPc = "windows" =>
        /\ Len(cLines) < 4 => cWindows = <<>>
        /\ Len(cLines) >= 4 => Len(cWindows) >= 1

C12_Witness ==
    /\ cPc = "windows"
    /\ cText = <<"a", ".", " ", "a", ".", " ">>
    /\ cLines = <<<<"a">>, <<".">>, <<"a">>, <<".">>>>
    /\ Len(cWindows) = 1

\* the fragments two spans share
Shared(s1, s2) == (s1.first .. s1.last) \cap (s2.first .. s2.last)

\* C13: for count = 5 and any number of fragments, every two consecutive
\* windows produced by split_content_by_sentences share at least one
\* fragment.
C13_ConsecutiveWindowsOverlap ==
    (cPc = "windows" /\ cCount = 5) =>
        \A k \in 1..(Len(cWindows) - 1) : Shared(cSpans[k], cSpans[k + 1]) # {}

C13_Witness ==
    /\ cPc = "windows"
    /\ cCount = 5
    /\ Len(cLines) = 10
    /\ Len(cWindows) = 4
    /\ Shared(cSpans[3], cSpans[4]) = 7..10

\* the even fragment indices, counted from 0, from which at least least
\* fragments remain
EvenStarts(total_lines, least) ==
    {i \in 0..(total_lines - 1) : i % 2 = 0 /\ total_lines - i >= least}

\* the windows are exactly those that start at the indices of starts, in
\* increasing order, each spanning fragments i up to i + 2*count - 1,
\* truncated at the end of the list
WindowsStartAt(starts) ==
    /\ Len(cSpans) = Cardinality(starts)
    /\ Len(cWindows) = Len(cSpans)
    /\ \A k \in 1..Len(cSpans) :
          LET i == 2 * (k - 1)
          IN  /\ i \in starts
              /\ cSpans[k].first = i + 1
              /\ cSpans[k].last = Min(i + 2 * cCount, Len(cLines))
              /\ cWindows[k] = Sentence(SubSeq(cLines, cSpans[k].first, cSpans[k].last))

\* C24 as stated: the chunker starts one window at every even fragment index
\* i, beginning at 0, for which at least 3 fragments remain from i (it stops
\* only once fewer than 3 remain); each window spans fragments i up to
\* i + 2*count - 1, truncated at the end of the list.
C24_WindowWhileThreeRemain ==
    cPc = "windows" => WindowsStartAt(EvenStarts(Len(cLines), 3))

\* C24 as the code has it: the chunker starts one window at every even
\* fragment index i, beginning at 0, for which at least 4 fragments remain
\* from i (it stops once fewer than 4 remain); each window spans fragments i
\* up to i + 2*count - 1, truncated at the end of the list.
C24_WindowWhileFourRemain ==
    cPc = "windows" => WindowsStartAt(EvenStarts(Len(cLines), 4))

C24_Witness ==
    /\ cPc = "windows"
    /\ cCount = 2
    /\ Len(cLines) = 7
    /\ cSpans = <<[first |-> 1, last |-> 4], [first |-> 3, last |-> 6]>>

\* the fragments, counted from 1, that some window takes
Windowed == UNION {cSpans[k].first .. cSpans[k].last : k \in 1..Len(cSpans)}

\* C32: no fragment is lost by windowing: for every window size count >= 1
\* and every text with N >= 4 fragments, each fragment appears in at least
\* one window returned by split_content_by_sentences.
C32_EveryFragmentWindowed ==
    (cPc = "windows" /\ cCount >= 1 /\ Len(cLines) >= 4) =>
        \A f \in 1..Len(cLines) : f \in Windowed

\* what does hold: with the default count every fragment of a text with 4 or
\* more fragments is in a window; with any count the fragments taken are the
\* first ones, reaching at least the second
EveryFragmentWindowedByDefault ==
    (cPc = "windows" /\ Len(cLines) >= 4) =>
        /\ cCount = DefaultCount => Windowed = 1..Len(cLines)
        /\ \E last \in 2..Len(cLines) : Windowed = 1..last

----------------------------------------------------------------------------
(* get_embeddings_for_sentences: embeddings cache and batching (SpecEmbed) *)

\* len(encoding.encode(sentences)) summed over a batch
RECURSIVE BatchTokens(_)
BatchTokens(batch) ==
    IF batch = <<>> THEN 0 ELSE CountTokens(Head(batch)) + BatchTokens(Tail(batch))

\* line 933
ExceedsCap(tmp_tokens_count, tokens_count) ==
    tmp_tokens_count + tokens_count > EmbedTokenCap

\* EmbeddingServiceInterface.encode_documents: one vector per sentence
Vector(sentence) == <<"vector of", sentence>>
EncodeDocuments(batch) == [k \in 1..Len(batch) |-> Vector(batch[k])]

\* get_cached_content_embeddings(doc_hash=doc_hash): (hash, res), res = None
\* when no file exists
GetCachedContentEmbeddings(cache, doc_hash) ==
    [hash |-> doc_hash,
     hit |-> doc_hash \in DOMAIN cache,
     res |-> IF doc_hash \in DOMAIN cache THEN cache[doc_hash] ELSE <<>>]

\* save_in_cache_content_embeddings
SaveInCacheContentEmbeddings(cache, hash, embeddings) ==
    [h \in DOMAIN cache \cup {hash} |-> IF h = hash THEN embeddings ELSE cache[h]]

\* lines 927-953 run to the end without an exception: the batch of every
\* encode_documents call, in order
RECURSIVE BatchLoop(_, _, _, _)
BatchLoop(sentences_set, tmp_sentences, tmp_tokens_count, requests) ==
    IF sentences_set = <<>>
    THEN (IF tmp_sentences # <<>> THEN Append(requests, tmp_sentences) ELSE requests)
    ELSE LET sentences == Head(sentences_set)
             tokens_count == CountTokens(sentences)
         IN  IF ExceedsCap(tmp_tokens_count, tokens_count)
             THEN BatchLoop(Tail(sentences_set), <<sentences>>, tokens_count,
                            Append(requests, tmp_sentences))
             ELSE BatchLoop(Tail(sentences_set), Append(tmp_sentences, sentences),
                            tmp_tokens_count + tokens_count, requests)

EmbedRequests(sentences_set) == BatchLoop(sentences_set, <<>>, 0, <<>>)

\* windows of 1, 125,000, 100,001 and 300,003 tokens
EmbedWindows == {<<"a">>, <<"<half>">>, <<"<long>">>, <<"<long>", "<long>", "<long>">>}
EmbedHashes == {GetDocHash(<<"a">>)}

\* lines 920-926
EmbedStart(doc_hash, sentences_set) ==
    /\ ePc \in {"idle", "done"}
    /\ eHash' = doc_hash
    /\ eSentences' = sentences_set
    /\ eI' = 0
    /\ eTmp' = <<>>
    /\ eTmpTokens' = 0
    /\ eRequests' = <<>>
    /\ UNCHANGED <<embCache, notEmbed>>
    /\ LET c == GetCachedContentEmbeddings(embCache, doc_hash)
       IN  IF c.hit
           THEN ePc' = "done" /\ eOut' = "ok" /\ eVectors' = c.res
           ELSE ePc' = "loop" /\ eOut' = "none" /\ eVectors' = <<>>

\* lines 928-946: one iteration of the loop; ok tells whether the embedding
\* service answers the request or raises
EmbedStep(ok) ==
    /\ ePc = "loop"
    /\ eI < Len(eSentences)
    /\ UNCHANGED <<embCache, eHash, eSentences, notEmbed>>
    /\ LET sentences == eSentences[eI + 1]
           tokens_count == CountTokens(sentences)
       IN  IF ExceedsCap(eTmpTokens, tokens_count)
           THEN /\ eRequests' = Append(eRequests, eTmp)
                /\ IF ok
                   THEN /\ eVectors' = eVectors \o EncodeDocuments(eTmp)
                        /\ eTmp' = <<sentences>>
                        /\ eTmpTokens' = tokens_count
                        /\ eI' = eI + 1
                        /\ UNCHANGED <<ePc, eOut>>
                   ELSE /\ ePc' = "done"
                        /\ eOut' = "EmbeddingError"
                        /\ UNCHANGED <<eVectors, eTmp, eTmpTokens, eI>>
           ELSE /\ ok
                /\ eTmp' = Append(eTmp, sentences)
                /\ eTmpTokens' = eTmpTokens + tokens_count
                /\ eI' = eI + 1
                /\ UNCHANGED <<ePc, eOut, eVectors, eRequests>>

\* lines 948-958: the last flush, the cache write and the return
EmbedFinish(ok) ==
    /\ ePc = "loop"
    /\ eI = Len(eSentences)
    /\ ePc' = "done"
    /\ UNCHANGED <<eHash, eSentences, eI, eTmp, eTmpTokens, notEmbed>>
    /\ IF eTmp # <<>>
       THEN /\ eRequests' = Append(eRequests, eTmp)
            /\ IF ok
               THEN /\ eVectors' = eVectors \o EncodeDocuments(eTmp)
                    /\ embCache' = SaveInCacheContentEmbeddings(
                                      embCache, eHash, eVectors \o EncodeDocuments(eTmp))
                    /\ eOut' = "ok"
               ELSE /\ eOut' = "EmbeddingError"
                    /\ UNCHANGED <<eVectors, embCache>>
       ELSE /\ ok
            /\ embCache' = SaveInCacheContentEmbeddings(embCache, eHash, eVectors)
            /\ eOut' = "ok"
            /\ UNCHANGED <<eVectors, eRequests>>

NextEmbed ==
    \/ \E doc_hash \in EmbedHashes,
          sentences_set \in UNION {[1..n -> EmbedWindows] : n \in 0..MaxWindows} :
          EmbedStart(doc_hash, sentences_set)
    \/ \E ok \in BOOLEAN : EmbedStep(ok)
    \/ \E ok \in BOOLEAN : EmbedFinish(ok)

InitEmbed == IdleButEmbed /\ EmbedIdle

SpecEmbed == InitEmbed /\ [][NextEmbed]_vars

----------------------------------------------------------------------------
(* Claims about the embedding batches (SpecEmbed) *)

\* C14: every request that get_embeddings_for_sentences sends to the
\* embedding service has a total token count of at most 250,000, for every
\* list of windows; the buffer is flushed before an item that would exceed the
\* cap is added, and the last partial buffer is always flushed.
C14_RequestsWithinCap ==
    /\ \A k \in 1..Len(eRequests) : BatchTokens(eRequests[k]) <= 250000
    /\ (ePc = "done" /\ eOut = "ok" /\ eRequests # <<>>) =>
          Flatten(eRequests) = eSentences

\* what holds when no window is larger than the cap by itself
RequestsWithinCapWhenWindowsFit ==
    (\A i \in 1..Len(eSentences) : CountTokens(eSentences[i]) <= EmbedTokenCap)
    => \A k \in 1..Len(eRequests) : BatchTokens(eRequests[k]) <= EmbedTokenCap

\* the call ran its loop to the end and returned
EmbedLoopReturned == ePc = "done" /\ eOut = "ok" /\ eI = Len(eSentences)

\* C33: the requests that get_embeddings_for_sentences sends to the embedding
\* service partition the window list into consecutive non-empty batches: every
\* window is sent exactly once, in order, and no request carries an empty
\* batch, whatever the token counts of the windows.
C33_RequestsPartitionWindows ==
    /\ \A k \in 1..Len(eRequests) : eRequests[k] # <<>>
    /\ EmbedLoopReturned => Flatten(eRequests) = eSentences

\* what does hold: a call that returns from its loop has sent every window
\* once, in order, and a request is empty only as the first one, before a
\* first window that is larger than the cap by itself
WindowsSentOnceInOrder ==
    /\ EmbedLoopReturned => Flatten(eRequests) = eSentences
    /\ \A k \in 1..Len(eRequests) :
          eRequests[k] = <<>> =>
              /\ k = 1
              /\ eSentences # <<>>
              /\ CountTokens(eSentences[1]) > EmbedTokenCap

----------------------------------------------------------------------------
(* save_text_in_databases: both stages, their caches and stores (SpecIngest) *)

\* get_cached_content_sentences: (hash, res), res = None when no file exists
GetCachedContentSentences(cache, content, doc_hash) ==
    LET hash == IF doc_hash = None THEN GetDocHash(content) ELSE doc_hash
    IN  [hash |-> hash,
         hit |-> hash \in DOMAIN cache,
         res |-> IF hash \in DOMAIN cache THEN cache[hash] ELSE <<>>]

\* save_in_cache_content_sentences
SaveInCacheContentSentences(cache, hash, sentences_set) ==
    [h \in DOMAIN cache \cup {hash} |-> IF h = hash THEN sentences_set ELSE cache[h]]

\* split_content_by_sentences(markdown_content, doc_hash, count) on the
\* sentences cache: the exception raised or None, the hash and windows
\* returned, and the cache afterwards
SplitContentBySentences(cache, markdown_content, doc_hash, count) ==
    LET c == GetCachedContentSentences(cache, markdown_content, doc_hash)
    IN  IF Truthy(c.hit, c.res)
        THEN [exc |-> None, hash |-> c.hash, res |-> c.res, cache |-> cache]
        ELSE IF markdown_content = <<>>
        THEN [exc |-> "ValueError: Empty content", hash |-> c.hash, res |-> <<>>,
              cache |-> cache]
        ELSE LET sentences_set == SentencesSet(Lines(markdown_content), count)
             IN  [exc |-> None, hash |-> c.hash, res |-> sentences_set,
                  cache |-> SaveInCacheContentSentences(cache, c.hash, sentences_set)]

InsertSentencesSetReplacing(store, sentences_set, sentences_vectors) ==
    <<[sentences |-> sentences_set, vectors |-> sentences_vectors]>>

\* VectorDBServiceInterface.insert_sentences_set: the store keeps every
\* insert it is given
InsertSentencesSet(store, sentences_set, sentences_vectors) ==
    Append(store, [sentences |-> sentences_set, vectors |-> sentences_vectors])

\* caches, stores and counters as they are now
Snapshot ==
    [sentCache |-> iSentCache, embCache |-> iEmbCache, jsonCache |-> jsonCache,
     vdbSent |-> iVdbSent, sql |-> iSql, vdbHead |-> iVdbHead, embCalls |-> iEmbCalls,
     ingested |-> iIngested]

Para == <<"a", ".", " ", "a", ".", " ">>
IngestDocs == {<<>>, <<"a">>, Para}
IngestHashArgs == {None, GetDocHash(Para)}

\* what the completion service answers in SpecIngest
IngestResponses ==
    {[kind |-> "array", tree |-> t, err |-> None] :
        t \in {<<>>, <<Node(<<"A">>, <<"x">>, <<Node(<<"B">>, <<"x">>, <<>>)>>)>>}}
    \cup {[kind |-> "nobracket", tree |-> <<>>, err |-> None],
          [kind |-> "badjson", tree |-> <<>>, err |-> "Expecting value"]}

\* save_text_in_databases (lines 166-168) into save_text_as_set_in_vdb, lines
\* 201-203: split_content_by_sentences with the default count
IngestStart(content, doc_hash) ==
    /\ iPc \in {"idle", "done"}
    /\ iCalls < MaxIngests
    /\ iCalls' = iCalls + 1
    /\ iContent' = content
    /\ iDocHash' = doc_hash
    /\ iBefore' = Snapshot
    /\ iSplitBase' = spCalls
    /\ iResult' = None
    /\ UNCHANGED <<iHier, iEmbCache, iVdbSent, iSql, iVdbHead, iEmbCalls, iIngested>>
    /\ UNCHANGED <<splitVars, notIngest>>
    /\ LET r == SplitContentBySentences(iSentCache, content, doc_hash, DefaultCount)
       IN  /\ iSentCache' = r.cache
           /\ iHash' = r.hash
           /\ iWindows' = r.res
           /\ IF r.exc # None
              THEN iPc' = "done" /\ iSentOut' = r.exc /\ iOut' = r.exc
              ELSE iPc' = "embed" /\ iSentOut' = "ok" /\ iOut' = "none"

\* save_text_as_set_in_vdb, lines 204-211: get_embeddings_for_sentences and
\* insert_sentences_set; encodeOk and insertOk tell whether the embedding
\* service and the vector store answer or raise
IngestEmbed(encodeOk, insertOk) ==
    /\ iPc = "embed"
    /\ UNCHANGED <<iHier, iContent, iDocHash, iSentCache, iSql, iVdbHead, iHash, iSentOut,
                   iWindows, iSplitBase, iResult, iBefore, iIngested, iCalls>>
    /\ UNCHANGED <<splitVars, notIngest>>
    /\ LET c == GetCachedContentEmbeddings(iEmbCache, iHash)
           requests == IF c.hit THEN <<>> ELSE EmbedRequests(iWindows)
           vectors == IF c.hit THEN c.res ELSE EncodeDocuments(Flatten(requests))
       IN  IF requests # <<>> /\ ~encodeOk
           THEN /\ iPc' = "done" /\ iOut' = "EmbeddingError"
                /\ iEmbCalls' = iEmbCalls + 1
                /\ UNCHANGED <<iEmbCache, iVdbSent>>
           ELSE /\ requests = <<>> => encodeOk
                /\ iEmbCalls' = iEmbCalls + Len(requests)
                /\ iEmbCache' = IF c.hit THEN iEmbCache
                                ELSE SaveInCacheContentEmbeddings(iEmbCache, iHash, vectors)
                /\ IF insertOk
                   THEN /\ iVdbSent' = InsertSentencesSet(iVdbSent, iWindows, vectors)
                        /\ iPc' = "split" /\ iOut' = "none"
                   ELSE /\ iPc' = "done" /\ iOut' = "VectorDbError"
                        /\ UNCHANGED iVdbSent

\* save_text_as_titles_in_vdb, lines 235-238: split_content_with_llm is
\* called with the arguments of save_text_in_databases
IngestSplitStart ==
    /\ iPc = "split"
    /\ spCalls = iSplitBase
    /\ SplitStart(iContent, iDocHash)

IngestSplitAttempt(response) ==
    /\ iPc = "split"
    /\ SplitAttempt(response)

\* lines 241-259, once split_content_with_llm has returned or raised
IngestTitles(insertOk) ==
    /\ iPc = "split"
    /\ spCalls = iSplitBase + 1
    /\ spPc = "done"
    /\ iPc' = "done"
    /\ UNCHANGED <<iHier, iContent, iDocHash, iSentCache, iEmbCache, iVdbSent, iEmbCalls,
                   iHash, iSentOut, iWindows, iSplitBase, iBefore, iCalls>>
    /\ UNCHANGED <<splitVars, notIngest>>
    /\ IF spOut # "ok"
       THEN /\ insertOk
            /\ iOut' = spOut
            /\ UNCHANGED <<iSql, iVdbHead, iResult, iIngested>>
       ELSE LET saved == SaveSectionsInSqlDb(spRes, iSql)
                sections == LinearizeSections(saved.sections, iHier)
            IN  /\ iSql' = saved.store
                /\ IF sections = <<>>
                   THEN /\ insertOk
                        /\ iOut' = "ok" /\ iResult' = None
                        /\ UNCHANGED <<iVdbHead, iIngested>>
                   ELSE IF insertOk
                   THEN /\ iVdbHead' = InsertSectionHeaders(
                                          iVdbHead, RemoveSubsectionsInSections(sections))
                        /\ iOut' = "ok" /\ iResult' = spHash
                        /\ iIngested' = iIngested \cup {iContent}
                   ELSE /\ iOut' = "VectorDbError"
                        /\ UNCHANGED <<iVdbHead, iResult, iIngested>>

NextIngest ==
    \/ \E content \in IngestDocs, doc_hash \in IngestHashArgs : IngestStart(content, doc_hash)
    \/ \E encodeOk \in BOOLEAN, insertOk \in BOOLEAN : IngestEmbed(encodeOk, insertOk)
    \/ IngestSplitStart
    \/ \E response \in IngestResponses : IngestSplitAttempt(response)
    \/ \E insertOk \in BOOLEAN : IngestTitles(insertOk)

InitIngest == IdleButIngest /\ SplitIdle /\ \E hier \in BOOLEAN : IngFresh(hier)

SpecIngest == InitIngest /\ [][NextIngest]_vars

----------------------------------------------------------------------------
(* Claims about ingestion (SpecIngest) *)

\* completion calls made so far by the current save_text_in_databases call
IngestCompletionCalls == IF spCalls > iSplitBase THEN Len(spSent) ELSE 0

\* the current call has ended with an exception
IngestFailed == iPc = "done" /\ iCalls > 0 /\ iOut # "ok"

\* C11: split_content_by_sentences and split_content_with_llm called with
\* empty text fail with an input error, in every cache state and whether or
\* not a precomputed doc_hash is supplied.
C11_EmptyTextFails ==
    /\ (iCalls > 0 /\ iContent = <<>>) => iSentOut = "ValueError: Empty content"
    /\ (spCalls > 0 /\ spContent = <<>> /\ spPc = "done") =>
          spOut = "ValueError: Empty content"

\* what holds of empty text when no doc_hash is supplied and nothing is
\* cached under the hash of the empty text
EmptyTextFailsOnOwnHash ==
    (iCalls > 0 /\ iContent = <<>> /\ iDocHash = None) =>
        /\ iPc = "done"
        /\ iOut = "ValueError: Empty content"
        /\ IngestCompletionCalls = 0

\* C17: re-ingesting a document whose normalized text was already ingested
\* is a cache hit and performs no new work: the second save_text_in_databases
\* call makes no completion-service call, no embedding-service call, and no
\* insert into the metadata store or the vector store.
C17_ReingestionDoesNoWork ==
    (/\ iCalls > 0
     /\ (iDocHash = None \/ iDocHash = GetDocHash(iContent))
     /\ \E c \in iBefore.ingested : GetDocHash(c) = GetDocHash(iContent))
    => /\ IngestCompletionCalls = 0
       /\ iEmbCalls = iBefore.embCalls
       /\ iSql = iBefore.sql
       /\ iVdbSent = iBefore.vdbSent
       /\ iVdbHead = iBefore.vdbHead

\* what re-ingestion does save when the first call stored its tree under the
\* hash of the text: the completion service and the embedding service are not
\* called again
ReingestionSavesTokens ==
    (/\ iCalls > 0
     /\ (iDocHash = None \/ iDocHash = GetDocHash(iContent))
     /\ \E c \in iBefore.ingested : GetDocHash(c) = GetDocHash(iContent)
     /\ GetDocHash(iContent) \in DOMAIN iBefore.jsonCache
     /\ JsonLoad(iBefore.jsonCache[GetDocHash(iContent)]) # <<>>)
    => /\ IngestCompletionCalls = 0
       /\ iEmbCalls = iBefore.embCalls

IngestReturned == iPc = "done" /\ iCalls > 0 /\ iOut = "ok"

\* C34: save_text_as_titles_in_vdb, and so save_text_in_databases, returns
\* the document hash whenever it completes without raising, including when
\* the section tree extracted from the document is empty.
C34_ReturnsDocHash ==
    IngestReturned => (iResult # None /\ iResult = spHash)

\* what does hold: the call returns the document hash when the tree has a
\* section, and None when the tree is empty
ReturnsDocHashUnlessTreeEmpty ==
    IngestReturned =>
        /\ spRes # <<>> => iResult = spHash
        /\ spRes = <<>> => iResult = None

----------------------------------------------------------------------------
(* Two concurrent ingestions of one document on the tree cache (SpecRace) *)

\* json.dumps(json_tree, indent=2) as the characters written to the file
RECURSIVE JsonTokens(_)
JsonTokens(sections) ==
    <<"[">>
    \o Flatten([i \in 1..Len(sections) |->
                   <<"{">> \o sections[i].header \o <<":">> \o sections[i].content
                   \o <<ToString(sections[i].level)>>
                   \o JsonTokens(sections[i].subsections) \o <<"}">>])
    \o <<"]">>

\* the trees the completion service can give for the document, enriched
RaceTrees == {<<>>, <<Node(<<"A">>, <<"x">>, <<>>)>>,
              <<Node(<<"A">>, <<"x">>, <<Node(<<"B">>, <<"x">>, <<>>)>>)>>}
RaceArtifacts == {EnrichSections(t, <<>>, 1) : t \in RaceTrees}

\* json.load(fp) on the characters of the file: the tree they spell, or a
\* JSONDecodeError when they spell none
JsonParses(chars) == \E t \in RaceArtifacts : JsonTokens(t) = chars
JsonParse(chars) == CHOOSE t \in RaceArtifacts : JsonTokens(t) = chars

\* write(2) of chars at offset 0 of a file that holds old: the file was
\* truncated when this writer opened it, but another writer may have written
\* since, and what it wrote beyond the end of chars stays
WriteAtStart(old, chars) == chars \o SubSeq(old, Len(chars) + 1, Len(old))

InitRace ==
    /\ IdleButRace
    /\ rFile = None
    /\ rPc = [p \in Procs |-> "lookup"]
    /\ rTree = [p \in Procs |-> <<>>]
    /\ rOut = [p \in Procs |-> "none"]
    /\ rRes = [p \in Procs |-> <<>>]
    /\ rLlm = [p \in Procs |-> 0]
    /\ rWrites = <<>>

\* get_cached_content_json_tree and lines 664-666
RaceLookup(p) ==
    /\ rPc[p] = "lookup"
    /\ UNCHANGED <<rFile, rTree, rLlm, rWrites, notRace>>
    /\ IF rFile = None
       THEN /\ rPc' = [rPc EXCEPT ![p] = "complete"]
            /\ UNCHANGED <<rOut, rRes>>
       ELSE IF ~JsonParses(rFile)
       THEN /\ rPc' = [rPc EXCEPT ![p] = "done"]
            /\ rOut' = [rOut EXCEPT ![p] = "JSONDecodeError"]
            /\ UNCHANGED rRes
       ELSE IF JsonParse(rFile) # <<>>
       THEN /\ rPc' = [rPc EXCEPT ![p] = "done"]
            /\ rOut' = [rOut EXCEPT ![p] = "ok"]
            /\ rRes' = [rRes EXCEPT ![p] = JsonParse(rFile)]
       ELSE /\ rPc' = [rPc EXCEPT ![p] = "complete"]
            /\ UNCHANGED <<rOut, rRes>>

\* lines 714-728: the completion call that parses, and the enrichment
RaceComplete(p, tree) ==
    /\ rPc[p] = "complete"
    /\ rPc' = [rPc EXCEPT ![p] = "open"]
    /\ rTree' = [rTree EXCEPT ![p] = EnrichSections(tree, <<>>, 1)]
    /\ rLlm' = [rLlm EXCEPT ![p] = @ + 1]
    /\ UNCHANGED <<rFile, rOut, rRes, rWrites, notRace>>

\* save_in_cache_content_json_tree, line 898: cache_file.open('w') creates
\* the file or truncates it
RaceOpen(p) ==
    /\ rPc[p] = "open"
    /\ rPc' = [rPc EXCEPT ![p] = "write"]
    /\ rFile' = <<>>
    /\ UNCHANGED <<rTree, rOut, rRes, rLlm, rWrites, notRace>>

\* line 899 and the close of the file, then the return of line 732
RaceWrite(p) ==
    /\ rPc[p] = "write"
    /\ rPc' = [rPc EXCEPT ![p] = "done"]
    /\ rFile' = WriteAtStart(rFile, JsonTokens(rTree[p]))
    /\ rWrites' = Append(rWrites, p)
    /\ rOut' = [rOut EXCEPT ![p] = "ok"]
    /\ rRes' = [rRes EXCEPT ![p] = rTree[p]]
    /\ UNCHANGED <<rTree, rLlm, notRace>>

NextRace ==
    \/ \E p \in Procs : RaceLookup(p)
    \/ \E p \in Procs, tree \in RaceTrees : RaceComplete(p, tree)
    \/ \E p \in Procs : RaceOpen(p)
    \/ \E p \in Procs : RaceWrite(p)

SpecRace == InitRace /\ [][NextRace]_vars

----------------------------------------------------------------------------
(* Claims about concurrent ingestions (SpecRace) *)

\* C19: when two ingestions of the same document run concurrently with no
\* coordination, in every interleaving the cache finally holds, for the
\* document hash, exactly the complete artifact written by whichever
\* ingestion wrote last (last writer wins, never a mixture of the two), and
\* both ingestions may have called the completion service.
C19_LastWriterWins ==
    ((\A p \in Procs : rPc[p] = "done") /\ rWrites # <<>>)
    => rFile = JsonTokens(rTree[rWrites[Len(rWrites)]])

\* what holds when the two ingestions write artifacts of the same length
LastWriterWinsOnEqualLength ==
    (/\ \A p \in Procs : rPc[p] = "done"
     /\ Len(rWrites) = 2
     /\ Len(JsonTokens(rTree[1])) = Len(JsonTokens(rTree[2])))
    => rFile = JsonTokens(rTree[rWrites[Len(rWrites)]])

----------------------------------------------------------------------------
(* SpecEnrich: enrich_sections called, more than once, on a list the caller
   keeps.  The function writes 'content', 'parents' and 'level' into the
   dictionaries of the list it is given and replaces their 'subsections' by
   the enriched ones (lines 978 and 984-986), and returns a new list of the
   same dictionaries: after the call the caller's list reads as the result
   does. *)

InitEnrich ==
    /\ IdleButEnrich
    /\ nSections \in ForestsUpTo(MaxNodes)
    /\ nBefore = nSections
    /\ nResults = <<>>

\* one call enrich_sections(sections)
EnrichSectionsCall ==
    /\ Len(nResults) < MaxEnrichCalls
    /\ nResults' = Append(nResults, EnrichSections(nSections, <<>>, 1))
    /\ nSections' = EnrichSections(nSections, <<>>, 1)
    /\ UNCHANGED <<nBefore, notEnrich>>

NextEnrich == EnrichSectionsCall

SpecEnrich == InitEnrich /\ [][NextEnrich]_vars

\* C23: enrich_sections is a pure function of its inputs: it leaves the node
\* list passed to it unchanged, so applying it twice to the same raw tree
\* gives the same enriched result both times.
C23_EnrichIsPure ==
    nResults # <<>> =>
        /\ nSections = nBefore
        /\ \A i \in 1..Len(nResults) : nResults[i] = nResults[1]

\* what does hold: the first call returns the enrichment of the list as it
\* was passed, and a list without nodes is left as it is
FirstEnrichmentIsOfTheRawTree ==
    nResults # <<>> =>
        /\ nResults[1] = EnrichSections(nBefore, <<>>, 1)
        /\ nBefore = <<>> => nSections = nBefore

----------------------------------------------------------------------------
(* SpecWindows: split_content_by_sentences called repeatedly, with the
   document hash left to the function, over one sentences cache *)

SixFragments == <<"a", ".", " ", "b", ".", " ", "a", ".", " ">>
WindowDocs == {<<>>, <<"a">>, Para, SixFragments}

InitWindows == IdleButWindows /\ WindowsIdle

\* one call split_content_by_sentences(markdown_content, count=count)
SplitBySentencesCall(markdown_content, count) ==
    /\ wCalls < MaxWindowCalls
    /\ wCalls' = wCalls + 1
    /\ wText' = markdown_content
    /\ wCount' = count
    /\ wCacheBefore' = wCache
    /\ LET r == SplitContentBySentences(wCache, markdown_content, None, count)
       IN  /\ wOut' = IF r.exc = None THEN "ok" ELSE r.exc
           /\ wRes' = r.res
           /\ wCache' = r.cache
    /\ UNCHANGED notWindows

NextWindows ==
    \E markdown_content \in WindowDocs, count \in Counts :
        SplitBySentencesCall(markdown_content, count)

SpecWindows == InitWindows /\ [][NextWindows]_vars

\* C31: after any sequence of earlier ingestions,
\* split_content_by_sentences(T, count=c) returns the windows that the
\* windowing algorithm yields for T with window size c; a result cached
\* under a different window size is never returned for c.
C31_WindowsAreForTheCountGiven ==
    wOut = "ok" => wRes = SentencesSet(Lines(wText), wCount)

\* what does hold: a call that finds no windows cached under the document's
\* hash returns the windows for its own count and caches them
WindowsAreForTheCountGivenOnAMiss ==
    (wOut = "ok" /\ ~(GetDocHash(wText) \in DOMAIN wCacheBefore
                       /\ wCacheBefore[GetDocHash(wText)] # <<>>))
    => /\ wRes = SentencesSet(Lines(wText), wCount)
       /\ wCache[GetDocHash(wText)] = wRes

----------------------------------------------------------------------------
(* MjPdfReader: recurrent blocks and the cleaned markdown (SpecPdf).
   A block is what extractBLOCKS gives: the corner coordinates block[0..3],
   here in tenths of a point, and the text block[4]. *)

\* math.ceil, math.floor and round (half to even) of a coordinate in tenths
Ceil(tenths) == (tenths + 9) \div 10
Floor(tenths) == tenths \div 10
Round(tenths) ==
    LET whole == tenths \div 10
        rest == tenths % 10
    IN  IF rest < 5 THEN whole
        ELSE IF rest > 5 THEN whole + 1
        ELSE IF whole % 2 = 0 THEN whole ELSE whole + 1

\* get_block_signature: f"{x}-{y}-{w}-{h}"
GetBlockSignature(block) ==
    <<Ceil(block.x0), Floor(block.y0), Round(block.x1), Round(block.y1)>>

\* lines 62-66: the blocks of one page counted into recurrents
RECURSIVE CountBlocks(_, _)
CountBlocks(recurrents, blocks) ==
    IF blocks = <<>> THEN recurrents
    ELSE LET signature == GetBlockSignature(Head(blocks))
             old == IF signature \in DOMAIN recurrents THEN recurrents[signature]
                    ELSE [count |-> 0, texts |-> {}]
             new == [count |-> old.count + 1,
                     texts |-> old.texts \cup {Strip(Head(blocks).text)}]
         IN  CountBlocks([sg \in DOMAIN recurrents \cup {signature} |->
                             IF sg = signature THEN new ELSE recurrents[sg]],
                         Tail(blocks))

\* line 67: int(self.doc.page_count * 0.5)
Ratio(page_count) == page_count \div 2

\* line 69
RecurrentsAtLeast(recurrents, ratio) ==
    LET kept == {sg \in DOMAIN recurrents : recurrents[sg].count >= ratio}
    IN  [sg \in kept |-> recurrents[sg]]

\* pymupdf4llm.to_markdown(self.doc): the text of every block, in page
\* order, each followed by a blank line
ToMarkdown(doc) ==
    LET blocks == Flatten(doc)
    IN  Flatten([k \in 1..Len(blocks) |-> Strip(blocks[k].text) \o <<"\n", "\n">>])

\* text.split("\n")
RECURSIVE SplitNewlines(_, _)
SplitNewlines(text, line) ==
    IF text = <<>> THEN <<line>>
    ELSE IF Head(text) = "\n" THEN <<line>> \o SplitNewlines(Tail(text), <<>>)
    ELSE SplitNewlines(Tail(text), Append(line, Head(text)))

\* repeated occurs in line
Contains(line, repeated) ==
    \E i \in 1..(Len(line) - Len(repeated) + 1) :
        SubSeq(line, i, i + Len(repeated) - 1) = repeated

\* lines 34-39: re.sub(f"[^\n]*{repeated_for_rgx}[^\n]*", "", md_text) for
\* every text of every recurrent signature: each line in which one of them
\* occurs is emptied, its newline stays
RemoveRecurrentLines(md_text, recurrent_texts) ==
    LET lines == SplitNewlines(md_text, <<>>)
        repeated_set == UNION {recurrent_texts[sg].texts : sg \in DOMAIN recurrent_texts}
    IN  Join([k \in 1..Len(lines) |->
                 IF \E repeated \in repeated_set : Contains(lines[k], repeated)
                 THEN <<>> ELSE lines[k]],
             <<"\n">>)

\* line 42: re.sub(r"\n{4,}", "\n\n", md_text); run counts the newlines
\* read since the last other character
RECURSIVE CollapseNewlines(_, _)
CollapseNewlines(text, run) ==
    LET newlines == IF run >= 4 THEN <<"\n", "\n">> ELSE [k \in 1..run |-> "\n"]
    IN  IF text = <<>> THEN newlines
        ELSE IF Head(text) = "\n" THEN CollapseNewlines(Tail(text), run + 1)
        ELSE newlines \o <<Head(text)>> \o CollapseNewlines(Tail(text), 0)

\* get_markdown, lines 25-43
GetMarkdown(doc, recurrent_texts) ==
    CollapseNewlines(RemoveRecurrentLines(ToMarkdown(doc), recurrent_texts), 0)

PageHeader ==
    [x0 |-> 712, y0 |-> 305, x1 |-> 5236, y1 |-> 425, text |-> <<"Report", "\n">>]
PageHeaderShifted ==
    [x0 |-> 719, y0 |-> 301, x1 |-> 5244, y1 |-> 415, text |-> <<"Report", "\n">>]
BodyA ==
    [x0 |-> 720, y0 |-> 1000, x1 |-> 5230, y1 |-> 3000, text |-> <<"alpha", " ", "a", "\n">>]
BodyB ==
    [x0 |-> 720, y0 |-> 1000, x1 |-> 5230, y1 |-> 4000, text |-> <<"beta", "\n">>]
BodyC ==
    [x0 |-> 720, y0 |-> 1000, x1 |-> 5230, y1 |-> 5000, text |-> <<"gamma", "\n">>]

\* the pages a document is made of
PageLayouts ==
    {<<PageHeader, BodyA>>, <<PageHeaderShifted, BodyB>>, <<PageHeader, BodyC>>,
     <<BodyA>>, <<>>}

InitPdf ==
    /\ IdleButPdf
    /\ pPc = "open"
    /\ pDoc \in UNION {[1..n -> PageLayouts] : n \in 1..MaxPages}
    /\ pPage = 0
    /\ pRecurrents = EmptyMap
    /\ pResult = EmptyMap
    /\ pMd = <<>>

\* lines 59-66: one iteration of "for page in self.doc"
ScanPage ==
    /\ pPc = "open"
    /\ pPage < Len(pDoc)
    /\ pPage' = pPage + 1
    /\ pRecurrents' = CountBlocks(pRecurrents, pDoc[pPage + 1])
    /\ UNCHANGED <<pPc, pDoc, pResult, pMd, notPdf>>

\* lines 67-69
FilterRecurrents ==
    /\ pPc = "open"
    /\ pPage = Len(pDoc)
    /\ pResult' = RecurrentsAtLeast(pRecurrents, Ratio(Len(pDoc)))
    /\ pPc' = "filtered"
    /\ UNCHANGED <<pDoc, pPage, pRecurrents, pMd, notPdf>>

\* get_markdown with the dictionary returned at line 26
CleanMarkdown ==
    /\ pPc = "filtered"
    /\ pMd' = GetMarkdown(pDoc, pResult)
    /\ pPc' = "markdown"
    /\ UNCHANGED <<pDoc, pPage, pRecurrents, pResult, notPdf>>

NextPdf == ScanPage \/ FilterRecurrents \/ CleanMarkdown

SpecPdf == InitPdf /\ [][NextPdf]_vars

\* the blocks of the document that have the signature
BlocksWithSignature(signature) ==
    LET blocks == Flatten(pDoc)
    IN  {k \in 1..Len(blocks) : GetBlockSignature(blocks[k]) = signature}

\* the texts of the blocks whose signature occurs at least least times
TextsOccurring(least) ==
    LET blocks == Flatten(pDoc)
    IN  {Strip(blocks[k].text) : k \in
            {j \in 1..Len(blocks) :
                Cardinality(BlocksWithSignature(GetBlockSignature(blocks[j]))) >= least}}

IsLineOf(text, md_text) ==
    LET lines == SplitNewlines(md_text, <<>>)
    IN  \E k \in 1..Len(lines) : lines[k] = text

\* the dictionary returned holds only signatures of at least least blocks,
\* and the markdown keeps, as a line, every block text that no block with
\* such a signature has
RecurrentOnlyFrom(least) ==
    /\ pPc \in {"filtered", "markdown"} =>
          \A signature \in DOMAIN pResult :
              Cardinality(BlocksWithSignature(signature)) >= least
    /\ pPc = "markdown" =>
          \A text \in TextsOccurring(1) \ TextsOccurring(least) : IsLineOf(text, pMd)

\* C36: MjPdfReader classifies a text block as recurrent only if its position
\* signature occurs on at least two blocks of the document: for every page
\* count (including documents of 1 to 3 pages), text whose signature occurs
\* once is not returned by get_list_of_recurrent_texts_as_dict and so is
\* never removed by get_markdown.
C36_RecurrentMeansTwice == RecurrentOnlyFrom(2)

\* what does hold: a signature is returned exactly when it occurs on at least
\* int(page_count / 2) blocks, which is at least two only for documents of 4
\* pages or more
RecurrentMeansHalfThePages ==
    /\ pPc \in {"filtered", "markdown"} =>
          DOMAIN pResult =
              {GetBlockSignature(Flatten(pDoc)[k]) : k \in
                  {j \in 1..Len(Flatten(pDoc)) :
                      Cardinality(BlocksWithSignature(GetBlockSignature(Flatten(pDoc)[j])))
                          >= Len(pDoc) \div 2}}
    /\ Len(pDoc) >= 4 => RecurrentOnlyFrom(2)

====
